---- MODULE Spec2Model ----
(***************************************************************************)
(* Model of the JDE sync utility: the batch entry point main(), the batch  *)
(* aggregator buildVendorsJson, the child-table fetch modules              *)
(* (getContactInfoRecords / getAddressBookRecords /                        *)
(* getMailingAddressRecords), the field-dictionary loaders and the         *)
(* spreadsheet-snapshot aggregator buildVendorsMaster.                     *)
(*                                                                         *)
(* JavaScript values are records [t, s, n]: t is the typeof tag ("string", *)
(* "number", "null", "undefined"), s the characters of a string (a         *)
(* sequence of one-character strings), n the value of a number.            *)
(* A row (a JavaScript object) is a sequence of [k, val] entries in        *)
(* insertion order.                                                        *)
(***************************************************************************)
EXTENDS Naturals, Sequences, FiniteSets, TLC

VARIABLES
    db,              \* remote tables: table name -> rows held by the AIS server
    dictFile,        \* data/<T>.xlsx: table name -> "absent" | "present"
    valid,           \* main(): what validateConnection() returned
    mainPc,          \* position of main() (src/index.ts)
    exitCode,        \* the status the process ends with (0 unless process.exit(1))
    termMsgs,        \* error() calls made by main() itself
    bvPc,            \* position of buildVendorsJson
    primaryQuery,    \* buildVendorsJson: how the F0101 query went
    vendorRowset,    \* buildVendorsJson: rows fetched from F0101
    idx,             \* buildVendorsJson: index of the row the loop is at
    fieldDetails,    \* buildVendorsJson: the F0101 dictionary
    vendorsRaw,      \* buildVendorsJson: raw output collection
    vendorsEnhanced, \* buildVendorsJson: enhanced output collection
    fetch,           \* the child fetch calls of the current parent
    started,         \* indices of primary rows for which child fetches were called
    files,           \* files written, in order of writing
    snapPc,          \* position of buildVendorsMaster
    sheets,          \* data/<T>.xlsx snapshot tables read by buildVendorsMaster
    vendorsMaster,   \* buildVendorsMaster: the records written
    enrich,          \* one call of an enricher: its raw row and its result
    call,            \* one call of a fetcher that returns the bare rowset
    conn,            \* one JDEConnectionService instance and the call made on it
    prof             \* the profile-based entry point: rows, profile fetches, result list

vars == <<db, dictFile, valid, mainPc, exitCode, termMsgs, bvPc, primaryQuery, vendorRowset, idx,
          fieldDetails, vendorsRaw, vendorsEnhanced, fetch, started, files,
          snapPc, sheets, vendorsMaster, enrich, call, conn, prof>>

batchVars == <<valid, mainPc, exitCode, termMsgs, bvPc, primaryQuery, vendorRowset, idx,
               fieldDetails, vendorsRaw, vendorsEnhanced, fetch, started, files>>

snapVars == <<snapPc, sheets, vendorsMaster>>

-----------------------------------------------------------------------------
(* Bounds of the model.                                                    *)

\* longest primary rowset the remote F0101 table holds
MaxVendors == 2

\* longest primary sheet read by buildVendorsMaster
MaxSheetRows == 2

\* most fields of a raw row handed to an enricher
MaxFields == 2

\* most calls made on one JDEConnectionService instance
MaxCalls == 3

-----------------------------------------------------------------------------
(* JavaScript values.                                                      *)

Str(chars) == [t |-> "string", s |-> chars, n |-> 0]

Num(k) == [t |-> "number", s |-> <<>>, n |-> k]

Null == [t |-> "null", s |-> <<>>, n |-> 0]

Undefined == [t |-> "undefined", s |-> <<>>, n |-> 0]

Bool(b) == [t |-> "boolean", s |-> <<>>, n |-> IF b THEN 1 ELSE 0]

DigitChar == <<"0", "1", "2", "3", "4", "5", "6", "7", "8", "9">>

RECURSIVE NumToChars(_)
\* decimal digits of a natural number, as String(n) prints them
NumToChars(k) ==
    IF k < 10 THEN <<DigitChar[k + 1]>>
    ELSE NumToChars(k \div 10) \o <<DigitChar[(k % 10) + 1]>>

\* String(value) of JavaScript, as used on the parent key
String(v) ==
    CASE v.t = "string" -> v.s
      [] v.t = "number" -> NumToChars(v.n)
      [] v.t = "null" -> <<"n", "u", "l", "l">>
      [] v.t = "boolean" -> IF v.n = 1 THEN <<"t", "r", "u", "e">>
                            ELSE <<"f", "a", "l", "s", "e">>
      [] OTHER -> <<"u", "n", "d", "e", "f", "i", "n", "e", "d">>

IsWhitespace(c) == c \in {" ", "\t", "\n"}

RECURSIVE TrimStart(_)
TrimStart(chars) ==
    IF chars # <<>> /\ IsWhitespace(Head(chars)) THEN TrimStart(Tail(chars))
    ELSE chars

RECURSIVE TrimEnd(_)
TrimEnd(chars) ==
    IF chars # <<>> /\ IsWhitespace(chars[Len(chars)])
    THEN TrimEnd(SubSeq(chars, 1, Len(chars) - 1))
    ELSE chars

\* String.prototype.trim
Trim(chars) == TrimEnd(TrimStart(chars))

-----------------------------------------------------------------------------
(* Rows: JavaScript objects with insertion-ordered keys.                   *)

Entry(key, v) == [k |-> key, val |-> v]

HasKey(row, key) == \E j \in 1..Len(row) : row[j].k = key

\* row[key]: undefined when the key is missing
Get(row, key) ==
    IF HasKey(row, key)
    THEN row[CHOOSE j \in 1..Len(row) : row[j].k = key].val
    ELSE Undefined

\* the first n elements of a sequence
Take(s, n) == IF Len(s) <= n THEN s ELSE SubSeq(s, 1, n)

RECURSIVE SelectRows(_, _, _)
\* the rows of a table whose key field prints as the filter's operand
SelectRows(rows, keyField, key) ==
    IF rows = <<>> THEN <<>>
    ELSE IF String(Get(Head(rows), keyField)) = key
         THEN <<Head(rows)>> \o SelectRows(Tail(rows), keyField, key)
         ELSE SelectRows(Tail(rows), keyField, key)

-----------------------------------------------------------------------------
(* Field dictionaries: data/<T>.xlsx and its loaders.                      *)

NoDict == [key \in {} |-> Null]

\* one metadata row of a dictionary sheet, by header
MetaRow(tableName, alias, description) ==
    [tableName |-> tableName, alias |-> alias, description |-> description]

\* the rows of data/<T>.xlsx when the file is present; the last row has no
\* alias and the loaders skip it
DictSheet(T) ==
    << MetaRow(T, "AN8", "Address Number"),
       MetaRow(T, "MLNM", "Mailing Name"),
       MetaRow(T, "", "no alias") >>

RECURSIVE BuildFieldMap(_)
\* the body of worksheet.eachRow in the loaders: key = `${tableName}_${alias}`,
\* rows missing the table name or the alias are skipped, later rows overwrite
BuildFieldMap(sheet) ==
    IF sheet = <<>> THEN NoDict
    ELSE LET rest == BuildFieldMap(SubSeq(sheet, 1, Len(sheet) - 1))
             r == sheet[Len(sheet)]
             key == r.tableName \o "_" \o r.alias
         IN  IF r.tableName = "" \/ r.alias = "" THEN rest
             ELSE [f \in (DOMAIN rest) \cup {key} |->
                      IF f = key
                      THEN [fieldName |-> key,
                            itemDescription |-> r.description,
                            itemLongName |-> r.description,
                            itemDataTypeDescription |-> "String",
                            itemSize |-> 8,
                            sheetRow |-> Len(sheet)]
                      ELSE rest[f]]

Loaded(dict) == [ok |-> TRUE, dict |-> dict]

LoadThrows == [ok |-> FALSE, dict |-> NoDict]

\* loadF0101FieldDetails: every failure of readFile is caught and gives {}
loadF0101FieldDetails(fileState) ==
    IF fileState = "present" THEN Loaded(BuildFieldMap(DictSheet("F0101")))
    ELSE Loaded(NoDict)

\* loadF0111FieldDetails: existsSync guard, {} when the file is absent
loadF0111FieldDetails(fileState) ==
    IF fileState = "absent" THEN Loaded(NoDict)
    ELSE Loaded(BuildFieldMap(DictSheet("F0111")))

\* loadF0115FieldDetails: utils/f0115Excel.ts is not among the sources; the
\* loader contract of the specification: an absent source gives {}
loadF0115FieldDetails(fileState) ==
    IF fileState = "absent" THEN Loaded(NoDict)
    ELSE Loaded(BuildFieldMap(DictSheet("F0115")))

\* loadF0116FieldDetails: no existsSync guard and no catch; readFile rejects
\* when the file is absent
loadF0116FieldDetails(fileState) ==
    IF fileState = "absent" THEN LoadThrows
    ELSE Loaded(BuildFieldMap(DictSheet("F0116")))

\* the loader each fetch module imports
LoadFieldDetails(T, fileState) ==
    CASE T = "F0111" -> loadF0111FieldDetails(fileState)
      [] T = "F0115" -> loadF0115FieldDetails(fileState)
      [] T = "F0116" -> loadF0116FieldDetails(fileState)
      [] OTHER -> loadF0101FieldDetails(fileState)

-----------------------------------------------------------------------------
(* Enrichment.                                                             *)

\* the object literal copied from a dictionary entry
CopyDetails(d) ==
    [fieldName |-> d.fieldName,
     itemDescription |-> d.itemDescription,
     itemLongName |-> d.itemLongName,
     itemDataTypeDescription |-> d.itemDataTypeDescription,
     itemSize |-> d.itemSize]

NoDetails == [fieldName |-> "",
              itemDescription |-> "",
              itemLongName |-> "",
              itemDataTypeDescription |-> "",
              itemSize |-> 0]

\* the omission test without trim(): only the empty string is dropped
Omitted_NoTrim(v) == v.t = "null" \/ (v.t = "string" /\ v.s = <<>>)

\* the omission test as a falsiness test: 0, false and '' are dropped too
Omitted_Falsy(v) ==
    \/ v.t \in {"null", "undefined"}
    \/ (v.t = "string" /\ Trim(v.s) = <<>>)
    \/ (v.t \in {"number", "boolean"} /\ v.n = 0)

\* `value === null` or a string whose trim() is ''
Omitted(v) == v.t = "null" \/ (v.t = "string" /\ Trim(v.s) = <<>>)

\* the entry without the dictionary lookup: details is always null
EnrichedField_NeverFound(key, v, dict, dictKey) ==
    [k |-> key, value |-> v, hasDetails |-> FALSE, details |-> NoDetails,
     aliasOf |-> ""]

\* the entry with `details: fieldDetail`: the dictionary's own object
EnrichedField_Shared(key, v, dict, dictKey) ==
    [k |-> key,
     value |-> v,
     hasDetails |-> dictKey \in DOMAIN dict,
     details |-> IF dictKey \in DOMAIN dict THEN CopyDetails(dict[dictKey])
                 ELSE NoDetails,
     aliasOf |-> IF dictKey \in DOMAIN dict THEN dictKey ELSE ""]

\* enriched[key] = { value, details: fieldDetails[dictKey] ? {...} : null };
\* details is a new object literal: aliasOf names the dictionary entry whose
\* object it is, and it is the object of none
EnrichedField(key, v, dict, dictKey) ==
    [k |-> key,
     value |-> v,
     hasDetails |-> dictKey \in DOMAIN dict,
     details |-> IF dictKey \in DOMAIN dict THEN CopyDetails(dict[dictKey])
                 ELSE NoDetails,
     aliasOf |-> ""]

RECURSIVE EnrichRecord(_, _)
\* the inline enricher of the fetch modules: Object.keys(record).forEach
EnrichRecord(record, dict) ==
    IF record = <<>> THEN <<>>
    ELSE LET e == Head(record)
             rest == EnrichRecord(Tail(record), dict)
         IN  IF Omitted(e.val) THEN rest
             ELSE <<EnrichedField(e.k, e.val, dict, e.k)>> \o rest

\* rowset.map(record => enhancedRecord)
EnrichRowset(rowset, dict) ==
    [j \in 1..Len(rowset) |-> EnrichRecord(rowset[j], dict)]

RECURSIVE EnrichVendor(_, _)
\* the inline enricher of buildVendorsJson for the F0101 row
EnrichVendor(vendor, dict) ==
    IF vendor = <<>> THEN <<>>
    ELSE LET e == Head(vendor)
             rest == EnrichVendor(Tail(vendor), dict)
         IN  IF Omitted(e.val) THEN rest
             ELSE <<EnrichedField(e.k, e.val, dict, e.k)>> \o rest

RECURSIVE enrichRow(_, _, _)
\* enrichRow of the snapshot aggregator: entries are keyed `${tableName}_${field}`
enrichRow(row, dict, tableName) ==
    IF row = <<>> THEN <<>>
    ELSE LET e == Head(row)
             rest == enrichRow(Tail(row), dict, tableName)
             key == tableName \o "_" \o e.k
         IN  IF Omitted(e.val) THEN rest
             ELSE <<EnrichedField(key, e.val, dict, key)>> \o rest

-----------------------------------------------------------------------------
(* The remote AIS tables.                                                  *)

Tables == {"F0101", "F0111", "F0115", "F0116"}

\* the tables that have a dictionary file data/<T>.xlsx
DictTables == {"F0101", "F0111", "F0115", "F0116", "F0401", "F01151"}

\* the child tables buildVendorsJson joins: contactInfo, addressBook, mailingAddress
Children == {"F0111", "F0115", "F0116"}

\* $limit of the child queries
ChildLimit == 10

\* $limit of the F0101 query of buildVendorsJson
VendorLimit == 5

Key4242 == <<"4", "2", "4", "2">>

\* a row of child table T belonging to address number an
ChildRow(T, an, name) ==
    << Entry(T \o "_AN8", Num(an)),
       Entry(T \o "_MLNM", name),
       Entry(T \o "_URRF", Null),
       Entry(T \o "_PH1", Str(<<"5", "5">>)) >>

\* the child tables held by the server: two rows of vendor 4242, one of vendor 7
ChildTable(T) ==
    << ChildRow(T, 4242, Str(<<"A">>)),
       ChildRow(T, 7, Str(<<"B">>)),
       ChildRow(T, 4242, Str(<<" ", " ">>)) >>

\* an F0101 row whose key field holds an8
VendorRow(an8) ==
    << Entry("F0101_AN8", an8),
       Entry("F0101_ALPH", Str(<<"A", "c", "m", "e">>)),
       Entry("F0101_TAX", Null) >>

\* an F0101 row without the key field
VendorRowNoKey == << Entry("F0101_ALPH", Str(<<"B", "a", "d">>)) >>

VendorPool ==
    { VendorRow(Str(Key4242)), VendorRow(Num(7)), VendorRow(Str(<<>>)),
      VendorRow(Str(<<" ">>)), VendorRow(Null), VendorRowNoKey }

\* the sequences over S of length at most n
RECURSIVE SeqsUpTo(_, _)
SeqsUpTo(S, n) ==
    IF n = 0 THEN {<<>>}
    ELSE LET shorter == SeqsUpTo(S, n - 1)
         IN  shorter \cup {Append(q, x) : q \in {r \in shorter : Len(r) = n - 1}, x \in S}

\* a sequence without repeated elements
Injective(q) == \A i, j \in 1..Len(q) : q[i] = q[j] => i = j

\* the contents the F0101 table may have: no row twice
VendorTables == {q \in SeqsUpTo(VendorPool, MaxVendors) : Injective(q)}

\* the server's answer to GET /v2/dataservice/table/<T>?$filter=<key field> EQ <key>
QueryRows(T, key, limit) == Take(SelectRows(db[T], T \o "_AN8", key), limit)

-----------------------------------------------------------------------------
(* A child fetch call: getContactInfoRecords, getAddressBookRecords,       *)
(* getMailingAddressRecords.                                               *)

IdleFetch ==
    [pc |-> "idle", an |-> <<>>, primary |-> "none", fallback |-> "none",
     queries |-> <<>>, rowset |-> <<>>, raw |-> <<>>, enhanced |-> <<>>]

\* the call up to its first await: new JDEConnectionService(); jde.authenticate()
CalledFetch(addressNumber) == [IdleFetch EXCEPT !.pc = "auth", !.an = addressNumber]

InFlight(f) == f.pc \in {"auth", "primary", "fallback"}

\* return { raw: [], enhanced: [] } of the outer catch
GiveUp(f) == [f EXCEPT !.pc = "resolved", !.raw = <<>>, !.enhanced = <<>>]

\* a mutant of Settle: the enhanced rows are returned last row first
Settle_Reversed(f, dict) ==
    [f EXCEPT !.pc = "resolved", !.raw = f.rowset,
              !.enhanced = [j \in 1..Len(f.rowset) |->
                               EnrichRecord(f.rowset[Len(f.rowset) + 1 - j], dict)]]

\* return { raw: rowset, enhanced: enhancedRowset }
Settle(f, dict) ==
    [f EXCEPT !.pc = "resolved", !.raw = f.rowset,
              !.enhanced = EnrichRowset(f.rowset, dict)]

\* the inner catch: the table-qualified query `<T>.AN8 EQ <addressNumber>` is issued
Retry(c, f) ==
    [f EXCEPT !.pc = "fallback", !.fallback = "sent",
              !.queries = Append(@, c \o ".AN8")]

\* what a fetch step leaves alone
FetchFrame ==
    /\ UNCHANGED <<db, dictFile, valid, mainPc, exitCode, termMsgs, bvPc, primaryQuery,
                   vendorRowset, idx, fieldDetails, vendorsRaw, vendorsEnhanced,
                   started, files>>
    /\ UNCHANGED <<snapVars, enrich, call, conn, prof>>

\* The loaders read only data/<T>.xlsx, which no step of the run changes, so
\* the await of the loader is taken together with the answer of the query
\* that precedes it.

\* after the primary query: load the dictionary and enrich; a throw of the
\* loader is caught by the inner catch, which retries with the fallback filter
AfterPrimary(c, f) ==
    LET loaded == LoadFieldDetails(c, dictFile[c])
    IN  IF loaded.ok THEN Settle(f, loaded.dict) ELSE Retry(c, f)

\* after the fallback query: load the dictionary and enrich; a throw of the
\* loader reaches the outer catch
AfterFallback(c, f) ==
    LET loaded == LoadFieldDetails(c, dictFile[c])
    IN  IF loaded.ok THEN Settle(f, loaded.dict) ELSE GiveUp(f)

\* authenticate() resolved: the primary query 'AN8 EQ <addressNumber>' is issued
FetchAuthOk(c) ==
    /\ fetch[c].pc = "auth"
    /\ fetch' = [fetch EXCEPT ![c] =
                    [fetch[c] EXCEPT !.pc = "primary", !.primary = "sent",
                                     !.queries = Append(@, "AN8")]]
    /\ FetchFrame

\* authenticate() threw: the await is outside the try blocks, the call rejects
FetchAuthFail(c) ==
    /\ fetch[c].pc = "auth"
    /\ fetch' = [fetch EXCEPT ![c] = [fetch[c] EXCEPT !.pc = "rejected"]]
    /\ FetchFrame

\* the primary query answered with a rowset
FetchPrimaryOk(c) ==
    /\ fetch[c].pc = "primary"
    /\ fetch' = [fetch EXCEPT ![c] =
                    AfterPrimary(c, [fetch[c] EXCEPT
                                        !.primary = "ok",
                                        !.rowset = QueryRows(c, fetch[c].an, ChildLimit)])]
    /\ FetchFrame

\* a mutant of FetchPrimaryMalformed: a body without the rowset is taken as a
\* failure of the primary attempt
FetchPrimaryMalformed_Retries(c) ==
    /\ fetch[c].pc = "primary"
    /\ fetch' = [fetch EXCEPT ![c] =
                    Retry(c, [fetch[c] EXCEPT !.primary = "malformed",
                                              !.rowset = <<>>])]
    /\ FetchFrame

\* the primary query answered 2xx with no rowset at the expected path:
\* `?.rowset || []` makes it an empty rowset
FetchPrimaryMalformed(c) ==
    /\ fetch[c].pc = "primary"
    /\ fetch' = [fetch EXCEPT ![c] =
                    AfterPrimary(c, [fetch[c] EXCEPT !.primary = "malformed",
                                                     !.rowset = <<>>])]
    /\ FetchFrame

\* the primary query rejected (non-2xx, network error): the inner catch retries
FetchPrimaryFail(c) ==
    /\ fetch[c].pc = "primary"
    /\ fetch' = [fetch EXCEPT ![c] = Retry(c, [fetch[c] EXCEPT !.primary = "fail"])]
    /\ FetchFrame

\* the fallback query answered with a rowset
FetchFallbackOk(c) ==
    /\ fetch[c].pc = "fallback"
    /\ fetch' = [fetch EXCEPT ![c] =
                    AfterFallback(c, [fetch[c] EXCEPT
                                         !.fallback = "ok",
                                         !.rowset = QueryRows(c, fetch[c].an, ChildLimit)])]
    /\ FetchFrame

\* the fallback query answered 2xx with no rowset
FetchFallbackMalformed(c) ==
    /\ fetch[c].pc = "fallback"
    /\ fetch' = [fetch EXCEPT ![c] =
                    AfterFallback(c, [fetch[c] EXCEPT !.fallback = "malformed",
                                                      !.rowset = <<>>])]
    /\ FetchFrame

\* the fallback query rejected: the outer catch returns empty sequences
FetchFallbackFail(c) ==
    /\ fetch[c].pc = "fallback"
    /\ fetch' = [fetch EXCEPT ![c] = GiveUp([fetch[c] EXCEPT !.fallback = "fail"])]
    /\ FetchFrame

-----------------------------------------------------------------------------
(* buildVendorsJson (src/modules/vendors.ts).                              *)

\* addressNumber of a primary row: the key field as a string
AddressNumberOf(vendor) == String(Get(vendor, "F0101_AN8"))

\* the guard of the loop without its comparison with 'null'
InvalidKey_NoNullCheck(addressNumber) ==
    \/ addressNumber = <<>>
    \/ addressNumber = <<"u", "n", "d", "e", "f", "i", "n", "e", "d">>

\* the guard of the loop: !addressNumber, 'undefined' or 'null'
InvalidKey(addressNumber) ==
    \/ addressNumber = <<>>
    \/ addressNumber = <<"u", "n", "d", "e", "f", "i", "n", "e", "d">>
    \/ addressNumber = <<"n", "u", "l", "l">>

\* the raw entry with the results of F0111 and F0115 in each other's slot
RawEntry_Swapped(addressNumber, vendor, f) ==
    [addressNumber |-> addressNumber,
     vendor |-> vendor,
     contactInfo |-> f["F0115"].raw,
     addressBook |-> f["F0111"].raw,
     mailingAddress |-> f["F0116"].raw]

\* vendorsRaw.push({addressNumber, vendor, contactInfo, addressBook, mailingAddress})
RawEntry(addressNumber, vendor, f) ==
    [addressNumber |-> addressNumber,
     vendor |-> vendor,
     contactInfo |-> f["F0111"].raw,
     addressBook |-> f["F0115"].raw,
     mailingAddress |-> f["F0116"].raw]

EnhancedEntry(addressNumber, vendor, dict, f) ==
    [addressNumber |-> addressNumber,
     vendor |-> EnrichVendor(vendor, dict),
     contactInfo |-> f["F0111"].enhanced,
     addressBook |-> f["F0115"].enhanced,
     mailingAddress |-> f["F0116"].enhanced]

FileWritten(name, content) == [name |-> name, content |-> content]

\* what no step of buildVendorsJson or main() changes
EnvFrame ==
    /\ UNCHANGED <<db, dictFile>>
    /\ UNCHANGED <<snapVars, enrich, call, conn, prof>>

\* jde.authenticate() of buildVendorsJson resolved: the F0101 query is issued
BvAuthOk ==
    /\ bvPc = "auth"
    /\ bvPc' = "query"
    /\ UNCHANGED <<valid, mainPc, exitCode, termMsgs, vendorRowset, idx, fieldDetails,
                   vendorsRaw, vendorsEnhanced, fetch, started, files>>
    /\ primaryQuery' = "sent"
    /\ EnvFrame

\* jde.authenticate() threw: buildVendorsJson rejects
BvAuthFail ==
    /\ bvPc = "auth"
    /\ bvPc' = "rejected"
    /\ UNCHANGED <<valid, mainPc, exitCode, termMsgs, vendorRowset, idx, fieldDetails,
                   vendorsRaw, vendorsEnhanced, fetch, started, files>>
    /\ UNCHANGED primaryQuery
    /\ EnvFrame

\* the F0101 query answered with a rowset; loadF0101FieldDetails is awaited
BvQueryOk ==
    /\ bvPc = "query"
    /\ vendorRowset' = Take(db["F0101"], VendorLimit)
    /\ bvPc' = "dict"
    /\ UNCHANGED <<valid, mainPc, exitCode, termMsgs, idx, fieldDetails,
                   vendorsRaw, vendorsEnhanced, fetch, started, files>>
    /\ primaryQuery' = "ok"
    /\ EnvFrame

\* the F0101 query answered 2xx with no rowset: `|| []`
BvQueryMalformed ==
    /\ bvPc = "query"
    /\ vendorRowset' = <<>>
    /\ bvPc' = "dict"
    /\ UNCHANGED <<valid, mainPc, exitCode, termMsgs, idx, fieldDetails,
                   vendorsRaw, vendorsEnhanced, fetch, started, files>>
    /\ primaryQuery' = "malformed"
    /\ EnvFrame

\* the F0101 query rejected and the rejection is swallowed as an empty rowset
BvQueryFail_Swallowed ==
    /\ bvPc = "query"
    /\ vendorRowset' = <<>>
    /\ bvPc' = "dict"
    /\ UNCHANGED <<valid, mainPc, exitCode, termMsgs, idx, fieldDetails,
                   vendorsRaw, vendorsEnhanced, fetch, started, files>>
    /\ primaryQuery' = "fail"
    /\ EnvFrame

\* the F0101 query rejected: nothing catches it, buildVendorsJson rejects
BvQueryFail ==
    /\ bvPc = "query"
    /\ bvPc' = "rejected"
    /\ UNCHANGED <<valid, mainPc, exitCode, termMsgs, vendorRowset, idx, fieldDetails,
                   vendorsRaw, vendorsEnhanced, fetch, started, files>>
    /\ primaryQuery' = "fail"
    /\ EnvFrame

\* loadF0101FieldDetails resolved (it never rejects); the loop begins
BvDictLoaded ==
    /\ bvPc = "dict"
    /\ fieldDetails' = loadF0101FieldDetails(dictFile["F0101"]).dict
    /\ idx' = 1
    /\ bvPc' = "loop"
    /\ UNCHANGED <<valid, mainPc, exitCode, termMsgs, vendorRowset,
                   vendorsRaw, vendorsEnhanced, fetch, started, files>>
    /\ UNCHANGED primaryQuery
    /\ EnvFrame

\* an iteration whose key is missing: `continue`
LoopSkip ==
    /\ bvPc = "loop"
    /\ idx <= Len(vendorRowset)
    /\ InvalidKey(AddressNumberOf(vendorRowset[idx]))
    /\ idx' = idx + 1
    /\ UNCHANGED <<valid, mainPc, exitCode, termMsgs, bvPc, vendorRowset, fieldDetails,
                   vendorsRaw, vendorsEnhanced, fetch, started, files>>
    /\ UNCHANGED primaryQuery
    /\ EnvFrame

\* an iteration with a valid key: the three fetchers are called, Promise.all awaited
LoopFetch ==
    /\ bvPc = "loop"
    /\ idx <= Len(vendorRowset)
    /\ ~InvalidKey(AddressNumberOf(vendorRowset[idx]))
    /\ fetch' = [c \in Children |-> CalledFetch(AddressNumberOf(vendorRowset[idx]))]
    /\ started' = started \cup {idx}
    /\ bvPc' = "fetching"
    /\ UNCHANGED <<valid, mainPc, exitCode, termMsgs, vendorRowset, idx, fieldDetails,
                   vendorsRaw, vendorsEnhanced, files>>
    /\ UNCHANGED primaryQuery
    /\ EnvFrame

\* the join with unshift in place of push: the newest entry comes first
LoopJoin_Unshift ==
    /\ bvPc = "fetching"
    /\ \A c \in Children : fetch[c].pc = "resolved"
    /\ LET vendor == vendorRowset[idx]
           addressNumber == AddressNumberOf(vendor)
       IN  /\ vendorsRaw' = <<RawEntry(addressNumber, vendor, fetch)>> \o vendorsRaw
           /\ vendorsEnhanced' =
                 <<EnhancedEntry(addressNumber, vendor, fieldDetails, fetch)>>
                    \o vendorsEnhanced
    /\ bvPc' = "delay"
    /\ UNCHANGED <<valid, mainPc, exitCode, termMsgs, vendorRowset, idx, fieldDetails,
                   fetch, started, files>>
    /\ UNCHANGED primaryQuery
    /\ EnvFrame

\* a join that goes to the next iteration without the pause
LoopJoin_NoDelay ==
    /\ bvPc = "fetching"
    /\ \A c \in Children : fetch[c].pc = "resolved"
    /\ LET vendor == vendorRowset[idx]
           addressNumber == AddressNumberOf(vendor)
       IN  /\ vendorsRaw' = Append(vendorsRaw, RawEntry(addressNumber, vendor, fetch))
           /\ vendorsEnhanced' =
                 Append(vendorsEnhanced,
                        EnhancedEntry(addressNumber, vendor, fieldDetails, fetch))
    /\ idx' = idx + 1
    /\ fetch' = [c \in Children |-> IdleFetch]
    /\ bvPc' = "loop"
    /\ UNCHANGED <<valid, mainPc, exitCode, termMsgs, vendorRowset, fieldDetails,
                   started, files>>
    /\ UNCHANGED primaryQuery
    /\ EnvFrame

\* a join that goes on as soon as one of the fetches resolved
LoopJoin_FirstSettled ==
    /\ bvPc = "fetching"
    /\ \E c \in Children : fetch[c].pc = "resolved"
    /\ LET vendor == vendorRowset[idx]
           addressNumber == AddressNumberOf(vendor)
       IN  /\ vendorsRaw' = Append(vendorsRaw, RawEntry(addressNumber, vendor, fetch))
           /\ vendorsEnhanced' =
                 Append(vendorsEnhanced,
                        EnhancedEntry(addressNumber, vendor, fieldDetails, fetch))
    /\ bvPc' = "delay"
    /\ UNCHANGED <<valid, mainPc, exitCode, termMsgs, vendorRowset, idx, fieldDetails,
                   fetch, started, files>>
    /\ UNCHANGED primaryQuery
    /\ EnvFrame

\* a mutant of LoopJoin: the enhanced entry of a parent is not appended
LoopJoin_RawOnly ==
    /\ bvPc = "fetching"
    /\ \A c \in Children : fetch[c].pc = "resolved"
    /\ LET vendor == vendorRowset[idx]
           addressNumber == AddressNumberOf(vendor)
       IN  vendorsRaw' = Append(vendorsRaw, RawEntry(addressNumber, vendor, fetch))
    /\ bvPc' = "delay"
    /\ UNCHANGED <<valid, mainPc, exitCode, termMsgs, vendorRowset, idx, fieldDetails,
                   vendorsEnhanced, fetch, started, files>>
    /\ UNCHANGED primaryQuery
    /\ EnvFrame

\* Promise.all resolved: both entries are appended and the pause is awaited
LoopJoin ==
    /\ bvPc = "fetching"
    /\ \A c \in Children : fetch[c].pc = "resolved"
    /\ LET vendor == vendorRowset[idx]
           addressNumber == AddressNumberOf(vendor)
       IN  /\ vendorsRaw' = Append(vendorsRaw, RawEntry(addressNumber, vendor, fetch))
           /\ vendorsEnhanced' =
                 Append(vendorsEnhanced,
                        EnhancedEntry(addressNumber, vendor, fieldDetails, fetch))
    /\ bvPc' = "delay"
    /\ UNCHANGED <<valid, mainPc, exitCode, termMsgs, vendorRowset, idx, fieldDetails,
                   fetch, started, files>>
    /\ UNCHANGED primaryQuery
    /\ EnvFrame

\* a mutant of LoopReject: what was collected so far is written before rejecting
LoopReject_WritesPartial ==
    /\ bvPc = "fetching"
    /\ \E c \in Children : fetch[c].pc = "rejected"
    /\ bvPc' = "rejected"
    /\ files' = Append(files, FileWritten("vendors.json", vendorsRaw))
    /\ UNCHANGED <<valid, mainPc, exitCode, termMsgs, vendorRowset, idx, fieldDetails,
                   vendorsRaw, vendorsEnhanced, fetch, started>>
    /\ UNCHANGED primaryQuery
    /\ EnvFrame

\* Promise.all rejected with the first rejection: buildVendorsJson rejects
LoopReject ==
    /\ bvPc = "fetching"
    /\ \E c \in Children : fetch[c].pc = "rejected"
    /\ bvPc' = "rejected"
    /\ UNCHANGED <<valid, mainPc, exitCode, termMsgs, vendorRowset, idx, fieldDetails,
                   vendorsRaw, vendorsEnhanced, fetch, started, files>>
    /\ UNCHANGED primaryQuery
    /\ EnvFrame

\* the 3 second timer fired: next iteration
LoopDelay ==
    /\ bvPc = "delay"
    /\ idx' = idx + 1
    /\ fetch' = [c \in Children |-> IdleFetch]
    /\ bvPc' = "loop"
    /\ UNCHANGED <<valid, mainPc, exitCode, termMsgs, vendorRowset, fieldDetails,
                   vendorsRaw, vendorsEnhanced, started, files>>
    /\ UNCHANGED primaryQuery
    /\ EnvFrame

\* after the loop: fs.writeFileSync('vendors.json', ...)
WriteRaw ==
    /\ bvPc = "loop"
    /\ idx > Len(vendorRowset)
    /\ files' = Append(files, FileWritten("vendors.json", vendorsRaw))
    /\ bvPc' = "write_enhanced"
    /\ UNCHANGED <<valid, mainPc, exitCode, termMsgs, vendorRowset, idx, fieldDetails,
                   vendorsRaw, vendorsEnhanced, fetch, started>>
    /\ UNCHANGED primaryQuery
    /\ EnvFrame

\* fs.writeFileSync('vendors-enhanced.json', ...); buildVendorsJson resolves
WriteEnhanced ==
    /\ bvPc = "write_enhanced"
    /\ files' = Append(files, FileWritten("vendors-enhanced.json", vendorsEnhanced))
    /\ bvPc' = "resolved"
    /\ UNCHANGED <<valid, mainPc, exitCode, termMsgs, vendorRowset, idx, fieldDetails,
                   vendorsRaw, vendorsEnhanced, fetch, started>>
    /\ UNCHANGED primaryQuery
    /\ EnvFrame

-----------------------------------------------------------------------------
(* main() (src/index.ts).                                                  *)

\* what main() leaves alone
MainFrame ==
    /\ UNCHANGED <<primaryQuery, vendorRowset, idx, fieldDetails, vendorsRaw,
                   vendorsEnhanced, fetch, started, files>>
    /\ EnvFrame

\* what main() does when validateConnection() returned false
ExitInvalid ==
    /\ valid' = "false"
    /\ termMsgs' = termMsgs + 1
    /\ exitCode' = 1
    /\ mainPc' = "exited"

\* validateConnection: authenticate() resolved, GET /v2/defaultconfig is issued
ValidateAuthOk ==
    /\ mainPc = "validate_auth"
    /\ mainPc' = "validate_config"
    /\ UNCHANGED <<valid, exitCode, termMsgs, bvPc>>
    /\ MainFrame

\* validateConnection: authenticate() threw, false is returned
ValidateAuthFail ==
    /\ mainPc = "validate_auth"
    /\ ExitInvalid
    /\ UNCHANGED bvPc
    /\ MainFrame

\* validateConnection returned true: buildVendorsJson is called
ValidateConfigOk ==
    /\ mainPc = "validate_config"
    /\ valid' = "true"
    /\ mainPc' = "sync"
    /\ bvPc' = "auth"
    /\ UNCHANGED <<exitCode, termMsgs>>
    /\ MainFrame

\* main() without process.exit(1): it logs and goes on to buildVendorsJson
ValidateConfigFail_FallsThrough ==
    /\ mainPc = "validate_config"
    /\ valid' = "false"
    /\ termMsgs' = termMsgs + 1
    /\ mainPc' = "sync"
    /\ bvPc' = "auth"
    /\ UNCHANGED exitCode
    /\ MainFrame

\* validateConnection: GET /v2/defaultconfig failed, false is returned
ValidateConfigFail ==
    /\ mainPc = "validate_config"
    /\ ExitInvalid
    /\ UNCHANGED bvPc
    /\ MainFrame

\* buildVendorsJson resolved: main() logs completion and returns
SyncDone ==
    /\ mainPc = "sync"
    /\ bvPc = "resolved"
    /\ mainPc' = "returned"
    /\ UNCHANGED <<valid, exitCode, termMsgs, bvPc>>
    /\ MainFrame

\* buildVendorsJson rejected: the catch of main() logs the error, main() returns
SyncCatch ==
    /\ mainPc = "sync"
    /\ bvPc = "rejected"
    /\ termMsgs' = termMsgs + 1
    /\ mainPc' = "returned"
    /\ UNCHANGED <<valid, exitCode, bvPc>>
    /\ MainFrame

\* main() returned and nothing is pending: the process ends with status 0
ProcessEnd ==
    /\ mainPc = "returned"
    /\ \A c \in Children : ~InFlight(fetch[c])
    /\ mainPc' = "exited"
    /\ UNCHANGED <<valid, exitCode, termMsgs, bvPc>>
    /\ MainFrame

\* no bare-rowset fetcher is being called
NoCall ==
    [fn |-> "none", T |-> "", pc |-> "idle", an |-> <<>>, primary |-> "none",
     fallback |-> "none", rowset |-> <<>>, result |-> <<>>]

\* no enricher call is being looked at
NoEnrich ==
    [by |-> "none", T |-> "", fields |-> <<>>, raw |-> <<>>, out |-> <<>>,
     dict |-> NoDict]

\* a JDEConnectionService as its constructor leaves it (token = null), with no
\* call made on it
NoConn ==
    [token |-> Null, op |-> "none", pc |-> "idle", calls |-> 0, hadToken |-> FALSE,
     tokenRequests |-> 0, authOutcome |-> "none", configOutcome |-> "none",
     outcome |-> "pending", value |-> Undefined, errors |-> 0]

\* the profile-based entry point is not running
NoProf == [pc |-> "off", vendors |-> <<>>, slots |-> <<>>, fullProfiles |-> <<>>]

-----------------------------------------------------------------------------
(* The batch run.                                                          *)

\* the data folder either holds every dictionary file or none
DictFileStates == {[T \in DictTables |-> m] : m \in {"absent", "present"}}

Init ==
    /\ db \in {[T \in Tables |-> IF T = "F0101" THEN rows ELSE ChildTable(T)] :
                  rows \in VendorTables}
    /\ dictFile \in DictFileStates
    /\ valid = "unset"
    /\ mainPc = "validate_auth"
    /\ exitCode = 0
    /\ termMsgs = 0
    /\ bvPc = "idle"
    /\ primaryQuery = "none"
    /\ vendorRowset = <<>>
    /\ idx = 0
    /\ fieldDetails = NoDict
    /\ vendorsRaw = <<>>
    /\ vendorsEnhanced = <<>>
    /\ fetch = [c \in Children |-> IdleFetch]
    /\ started = {}
    /\ files = <<>>
    /\ snapPc = "off"
    /\ sheets = <<>>
    /\ vendorsMaster = <<>>
    /\ enrich = NoEnrich
    /\ call = NoCall
    /\ conn = NoConn
    /\ prof = NoProf

Next ==
    \/ ValidateAuthOk
    \/ ValidateAuthFail
    \/ ValidateConfigOk
    \/ ValidateConfigFail
    \/ SyncDone
    \/ SyncCatch
    \/ ProcessEnd
    \/ BvAuthOk
    \/ BvAuthFail
    \/ BvQueryOk
    \/ BvQueryMalformed
    \/ BvQueryFail
    \/ BvDictLoaded
    \/ LoopSkip
    \/ LoopFetch
    \/ LoopJoin
    \/ LoopReject
    \/ LoopDelay
    \/ WriteRaw
    \/ WriteEnhanced
    \/ \E c \in Children : FetchAuthOk(c)
    \/ \E c \in Children : FetchAuthFail(c)
    \/ \E c \in Children : FetchPrimaryOk(c)
    \/ \E c \in Children : FetchPrimaryMalformed(c)
    \/ \E c \in Children : FetchPrimaryFail(c)
    \/ \E c \in Children : FetchFallbackOk(c)
    \/ \E c \in Children : FetchFallbackMalformed(c)
    \/ \E c \in Children : FetchFallbackFail(c)

Spec == Init /\ [][Next]_vars

-----------------------------------------------------------------------------
(* buildVendorsMaster (src/modules/vendorsMaster.ts): the aggregator over  *)
(* the spreadsheet snapshots data/<T>.xlsx.  A sheet is [headers, rows]:   *)
(* headers are the cells of row 1, rows the cell sequences of the other    *)
(* rows; an empty cell is a hole of row.values.                            *)

Hole == [t |-> "hole", s |-> <<>>, n |-> 0]

HeaderCell(text) == [str |-> TRUE, text |-> text]

\* rowObj[key] = v: a new key goes last, an existing key keeps its place
Put(row, key, v) ==
    IF HasKey(row, key)
    THEN [j \in 1..Len(row) |-> IF row[j].k = key THEN Entry(key, v) ELSE row[j]]
    ELSE Append(row, Entry(key, v))

RECURSIVE RowObject(_, _, _)
\* row.values.slice(1).forEach over the first n cells: holes are not visited,
\* cells beyond the headers or under an empty header are dropped
RowObject(headers, cells, n) ==
    IF n = 0 THEN <<>>
    ELSE LET rest == RowObject(headers, cells, n - 1)
         IN  IF cells[n].t = "hole" \/ n > Len(headers) THEN rest
             ELSE IF headers[n].text = "" THEN rest
             ELSE Put(rest, headers[n].text, cells[n])

\* loadTableData: [] when the file is absent, else one object per data row
loadTableData(sheet, fileState) ==
    IF fileState = "absent" THEN <<>>
    ELSE LET headers == SelectSeq(sheet.headers, LAMBDA h : h.str)
         IN  [j \in 1..Len(sheet.rows) |->
                 RowObject(headers, sheet.rows[j], Len(sheet.rows[j]))]

\* loadF0401FieldDetails: utils/f0401Excel.ts is not among the sources; the
\* loader contract of the specification: an absent source gives {}
loadF0401FieldDetails(fileState) ==
    IF fileState = "absent" THEN Loaded(NoDict)
    ELSE Loaded(BuildFieldMap(DictSheet("F0401")))

\* loadF01151FieldDetails: existsSync guard, {} when the file is absent
loadF01151FieldDetails(fileState) ==
    IF fileState = "absent" THEN Loaded(NoDict)
    ELSE Loaded(BuildFieldMap(DictSheet("F01151")))

\* the six loaders of the first Promise.all
SnapLoader(T, fileState) ==
    CASE T = "F0401" -> loadF0401FieldDetails(fileState)
      [] T = "F01151" -> loadF01151FieldDetails(fileState)
      [] OTHER -> LoadFieldDetails(T, fileState)

\* JavaScript truthiness of a value read from a row
Truthy(v) ==
    CASE v.t = "string" -> v.s # <<>>
      [] v.t = "number" -> v.n # 0
      [] v.t = "boolean" -> v.n = 1
      [] OTHER -> FALSE

\* row['Address Number'] || row['AN8']
AN8Of(row) ==
    IF Truthy(Get(row, "Address Number")) THEN Get(row, "Address Number")
    ELSE Get(row, "AN8")

\* a mutant of indexByAN8: rows with a falsy key are filed too, under the
\* string form of the key
indexByAN8_FilesKeyless(arr, an8) ==
    SelectSeq(arr, LAMBDA row : String(AN8Of(row)) = String(an8))

\* indexByAN8(arr)[an8]: the rows filed under the property String(an8), in
\* source order; rows with a falsy key are filed nowhere
indexByAN8(arr, an8) ==
    SelectSeq(arr, LAMBDA row : Truthy(AN8Of(row)) /\ String(AN8Of(row)) = String(an8))

\* rows?.map(row => enrichRow(row, fields, tableName)) || []
EnrichMatches(rows, dict, tableName) ==
    [j \in 1..Len(rows) |-> enrichRow(rows[j], dict, tableName)]

\* the record with the F0401 slot built from the last matching row
MasterRecord_LastMatch(vendor, data, fields) ==
    LET an8 == AN8Of(vendor)
        f0401 == indexByAN8(data["F0401"], an8)
    IN  [AN8 |-> an8,
         F0101 |-> enrichRow(vendor, fields["F0101"], "F0101"),
         F0401 |-> IF Len(f0401) > 0
                   THEN [defined |-> TRUE,
                         row |-> enrichRow(f0401[Len(f0401)], fields["F0401"], "F0401")]
                   ELSE [defined |-> FALSE, row |-> <<>>],
         F0115 |-> EnrichMatches(indexByAN8(data["F0115"], an8), fields["F0115"], "F0115"),
         F01151 |-> EnrichMatches(indexByAN8(data["F01151"], an8), fields["F01151"], "F01151"),
         F0116 |-> EnrichMatches(indexByAN8(data["F0116"], an8), fields["F0116"], "F0116"),
         F0111 |-> EnrichMatches(indexByAN8(data["F0111"], an8), fields["F0111"], "F0111")]

\* the object built for one F0101 row by f0101Data.map
MasterRecord(vendor, data, fields) ==
    LET an8 == AN8Of(vendor)
        f0401 == indexByAN8(data["F0401"], an8)
    IN  [AN8 |-> an8,
         F0101 |-> enrichRow(vendor, fields["F0101"], "F0101"),
         F0401 |-> IF Len(f0401) > 0
                   THEN [defined |-> TRUE,
                         row |-> enrichRow(f0401[1], fields["F0401"], "F0401")]
                   ELSE [defined |-> FALSE, row |-> <<>>],
         F0115 |-> EnrichMatches(indexByAN8(data["F0115"], an8), fields["F0115"], "F0115"),
         F01151 |-> EnrichMatches(indexByAN8(data["F01151"], an8), fields["F01151"], "F01151"),
         F0116 |-> EnrichMatches(indexByAN8(data["F0116"], an8), fields["F0116"], "F0116"),
         F0111 |-> EnrichMatches(indexByAN8(data["F0111"], an8), fields["F0111"], "F0111")]

\* the tables as the second Promise.all delivers them
SnapData == [T \in DictTables |-> loadTableData(sheets[T], dictFile[T])]

\* the dictionaries as the first Promise.all delivers them
SnapFields == [T \in DictTables |-> SnapLoader(T, dictFile[T]).dict]

SnapFrame == UNCHANGED <<enrich, call, conn, prof, db, dictFile, sheets, valid, mainPc, exitCode, termMsgs, bvPc,
                         primaryQuery, vendorRowset, idx, fieldDetails,
                         vendorsRaw, vendorsEnhanced, fetch, started>>

\* the six dictionary loaders resolved
SnapMetaLoaded ==
    /\ snapPc = "meta"
    /\ \A T \in DictTables : SnapLoader(T, dictFile[T]).ok
    /\ snapPc' = "tables"
    /\ UNCHANGED <<vendorsMaster, files>>
    /\ SnapFrame

\* one of the loaders rejected: buildVendorsMaster rejects, nothing is written
SnapMetaReject ==
    /\ snapPc = "meta"
    /\ \E T \in DictTables : ~SnapLoader(T, dictFile[T]).ok
    /\ snapPc' = "rejected"
    /\ UNCHANGED <<vendorsMaster, files>>
    /\ SnapFrame

\* the six tables are loaded: the records are composed and the file written
SnapCompose ==
    /\ snapPc = "tables"
    /\ LET f0101Data == SnapData["F0101"]
       IN  vendorsMaster' = [j \in 1..Len(f0101Data) |->
                                MasterRecord(f0101Data[j], SnapData, SnapFields)]
    /\ files' = Append(files, FileWritten("vendors_master.json", vendorsMaster'))
    /\ snapPc' = "resolved"
    /\ SnapFrame

\* a data row of F0101.xlsx under the headers Address Number, AN8, Name
SheetRowPool ==
    { << Str(Key4242), Hole, Str(<<"A", "c", "m", "e">>) >>,
      << Hole, Num(7), Str(<<"B", "o", "l", "t">>) >>,
      << Str(<<>>), Hole, Str(<<"N", "o", "K", "e", "y">>) >>,
      << Hole, Hole, Str(<<"G", "h", "o", "s", "t">>) >>,
      << Str(Key4242), Num(7), Str(<<" ">>) >> }

F0101Sheets ==
    {[headers |-> <<HeaderCell("Address Number"), HeaderCell("AN8"), HeaderCell("Name")>>,
      rows |-> r] : r \in SeqsUpTo(SheetRowPool, MaxSheetRows)}

\* the snapshot of a child table: two rows of 4242, one of 7, one without key
ChildSheet(T) ==
    [headers |-> <<HeaderCell("Address Number"), [str |-> FALSE, text |-> ""],
                   HeaderCell("AN8"), HeaderCell("MLNM")>>,
     rows |-> << << Str(Key4242), Hole, Str(<<"a">>) >>,
                 << Hole, Num(7), Str(<<"b">>) >>,
                 << Hole, Hole, Str(<<"c">>) >>,
                 << Str(Key4242), Hole, Str(<<"d">>) >> >>]

SnapInit ==
    /\ db = [T \in Tables |-> <<>>]
    /\ dictFile \in [DictTables -> {"absent", "present"}]
    /\ sheets \in {[T \in DictTables |-> IF T = "F0101" THEN f ELSE ChildSheet(T)] :
                      f \in F0101Sheets}
    /\ snapPc = "meta"
    /\ vendorsMaster = <<>>
    /\ valid = "unset"
    /\ mainPc = "off"
    /\ exitCode = 0
    /\ termMsgs = 0
    /\ bvPc = "idle"
    /\ primaryQuery = "none"
    /\ vendorRowset = <<>>
    /\ idx = 0
    /\ fieldDetails = NoDict
    /\ vendorsRaw = <<>>
    /\ vendorsEnhanced = <<>>
    /\ fetch = [c \in Children |-> IdleFetch]
    /\ started = {}
    /\ files = <<>>
    /\ enrich = NoEnrich
    /\ call = NoCall
    /\ conn = NoConn
    /\ prof = NoProf

SnapNext ==
    \/ SnapMetaLoaded
    \/ SnapMetaReject
    \/ SnapCompose

SpecSnap == SnapInit /\ [][SnapNext]_vars

-----------------------------------------------------------------------------
(* The enrichers on their own: enrichRow of the snapshot aggregator, the   *)
(* inline enricher of the fetch modules and the inline enricher of         *)
(* buildVendorsJson, each applied to one raw row.                          *)

\* the field aliases a row may carry; ZZ is in no dictionary
AliasPool == {"AN8", "MLNM", "ZZ"}

\* the values a field may hold
ValuePool ==
    { Null, Str(<<>>), Str(<<" ", "\t">>), Str(<<"x", " ">>), Num(0), Bool(FALSE) }

\* rows of up to MaxFields fields, no alias twice
FieldRows ==
    {q \in SeqsUpTo({Entry(a, v) : a \in AliasPool, v \in ValuePool}, MaxFields) :
        \A i, j \in 1..Len(q) : q[i].k = q[j].k => i = j}

\* the row as the dataservice returns it: keys are `<table>_<alias>`
Qualified(T, fields) ==
    [j \in 1..Len(fields) |-> Entry(T \o "_" \o fields[j].k, fields[j].val)]

EnrichFrame ==
    /\ UNCHANGED <<db, dictFile, call, conn, prof>>
    /\ UNCHANGED <<batchVars, snapVars>>

\* enrichRow(row, fields, tableName) on a row of a snapshot sheet
ApplyEnrichRow ==
    /\ enrich.by = "none"
    /\ SnapLoader(enrich.T, dictFile[enrich.T]).ok
    /\ enrich' = [enrich EXCEPT
                     !.by = "enrichRow",
                     !.raw = enrich.fields,
                     !.dict = SnapLoader(enrich.T, dictFile[enrich.T]).dict,
                     !.out = enrichRow(enrich.fields,
                                       SnapLoader(enrich.T, dictFile[enrich.T]).dict,
                                       enrich.T)]
    /\ EnrichFrame

\* the rowset.map callback of a fetch module on a row of its child table
ApplyEnrichRecord ==
    /\ enrich.by = "none"
    /\ enrich.T \in Children
    /\ LoadFieldDetails(enrich.T, dictFile[enrich.T]).ok
    /\ LET record == Qualified(enrich.T, enrich.fields)
       IN  enrich' = [enrich EXCEPT
                         !.by = "EnrichRecord",
                         !.raw = record,
                         !.dict = LoadFieldDetails(enrich.T, dictFile[enrich.T]).dict,
                         !.out = EnrichRecord(record,
                                    LoadFieldDetails(enrich.T, dictFile[enrich.T]).dict)]
    /\ EnrichFrame

\* the inline enricher of buildVendorsJson on an F0101 row
ApplyEnrichVendor ==
    /\ enrich.by = "none"
    /\ enrich.T = "F0101"
    /\ LET vendor == Qualified("F0101", enrich.fields)
       IN  enrich' = [enrich EXCEPT
                         !.by = "EnrichVendor",
                         !.raw = vendor,
                         !.dict = loadF0101FieldDetails(dictFile["F0101"]).dict,
                         !.out = EnrichVendor(vendor,
                                    loadF0101FieldDetails(dictFile["F0101"]).dict)]
    /\ EnrichFrame

\* the holder of the enriched row writes to the details object of an entry;
\* the write reaches the dictionary when that object is the dictionary's own
AlterEnriched ==
    /\ enrich.by # "none"
    /\ \E j \in 1..Len(enrich.out) :
          /\ enrich.out[j].hasDetails
          /\ enrich.out[j].details.itemDescription # "altered"
          /\ enrich' = [enrich EXCEPT
                           !.out[j].details.itemDescription = "altered",
                           !.dict = IF enrich.out[j].aliasOf = "" THEN @
                                    ELSE [@ EXCEPT ![enrich.out[j].aliasOf].itemDescription
                                                      = "altered"]]
    /\ EnrichFrame

EnrichInit ==
    /\ enrich \in {[NoEnrich EXCEPT !.T = T, !.fields = q] :
                      T \in {"F0101", "F0116"}, q \in FieldRows}
    /\ dictFile \in DictFileStates
    /\ db = [T \in Tables |-> <<>>]
    /\ snapPc = "off"
    /\ sheets = <<>>
    /\ vendorsMaster = <<>>
    /\ valid = "unset"
    /\ mainPc = "off"
    /\ exitCode = 0
    /\ termMsgs = 0
    /\ bvPc = "idle"
    /\ primaryQuery = "none"
    /\ vendorRowset = <<>>
    /\ idx = 0
    /\ fieldDetails = NoDict
    /\ vendorsRaw = <<>>
    /\ vendorsEnhanced = <<>>
    /\ fetch = [c \in Children |-> IdleFetch]
    /\ started = {}
    /\ files = <<>>
    /\ call = NoCall
    /\ conn = NoConn
    /\ prof = NoProf

EnrichNext ==
    \/ ApplyEnrichRow
    \/ ApplyEnrichRecord
    \/ ApplyEnrichVendor
    \/ AlterEnriched

SpecEnrich == EnrichInit /\ [][EnrichNext]_vars

-----------------------------------------------------------------------------
(* The fetchers that return the bare rowset: getVendorMasterRecords        *)
(* (F0401), getWhosWhoRecords (F01151) and the getMailingAddressRecords    *)
(* that returns MailingAddressRecord[] (F0116), each called on its own.    *)

\* the table each of these fetchers queries
FetcherTable ==
    [getVendorMasterRecords |-> "F0401",
     getWhosWhoRecords |-> "F01151",
     getMailingAddressRecords |-> "F0116"]

\* the prefix of the file each of them saves its rowset to
FetcherFilePrefix ==
    [getVendorMasterRecords |-> "vendor_master_",
     getWhosWhoRecords |-> "whos_who_",
     getMailingAddressRecords |-> "mailing_address_"]

RECURSIVE JoinChars(_)
\* the characters as one string
JoinChars(chars) ==
    IF chars = <<>> THEN "" ELSE Head(chars) \o JoinChars(Tail(chars))

\* `<prefix>${addressNumber}.json`
RowsetFile(c) == FetcherFilePrefix[c.fn] \o JoinChars(c.an) \o ".json"

\* the address numbers the fetchers are called with; nobody has 99
CallKeys == {Key4242, <<"7">>, <<"9", "9">>}

CallFrame ==
    /\ UNCHANGED <<db, dictFile, valid, mainPc, exitCode, termMsgs, bvPc, primaryQuery,
                   vendorRowset, idx, fieldDetails, vendorsRaw, vendorsEnhanced,
                   fetch, started>>
    /\ UNCHANGED <<snapVars, enrich, conn, prof>>

\* the rowset was extracted: fs.writeFileSync saves it and it is returned; if
\* the write throws, the catch around it takes over
SaveAndReturn(c, rowset, written, onThrow) ==
    IF written
    THEN /\ files' = Append(files, FileWritten(RowsetFile(c), rowset))
         /\ call' = [c EXCEPT !.pc = "resolved", !.rowset = rowset, !.result = rowset]
    ELSE /\ files' = files
         /\ call' = [onThrow EXCEPT !.rowset = rowset]

\* the inner catch: the table-qualified query is issued
CallRetry(c) == [c EXCEPT !.pc = "fallback", !.fallback = "sent"]

\* the outer catch: return []
CallGiveUp(c) == [c EXCEPT !.pc = "resolved", !.result = <<>>]

\* authenticate() resolved: the primary query is issued
CallAuthOk ==
    /\ call.pc = "auth"
    /\ call' = [call EXCEPT !.pc = "primary", !.primary = "sent"]
    /\ UNCHANGED files
    /\ CallFrame

\* authenticate() threw, outside the try blocks: the call rejects
CallAuthFail ==
    /\ call.pc = "auth"
    /\ call' = [call EXCEPT !.pc = "rejected"]
    /\ UNCHANGED files
    /\ CallFrame

\* the primary query answered with a rowset
CallPrimaryOk ==
    /\ call.pc = "primary"
    /\ \E written \in BOOLEAN :
          LET c == [call EXCEPT !.primary = "ok"]
          IN  SaveAndReturn(c, QueryRows(call.T, call.an, ChildLimit), written,
                            CallRetry(c))
    /\ CallFrame

\* the primary query answered without a rowset: `|| []`
CallPrimaryMalformed ==
    /\ call.pc = "primary"
    /\ \E written \in BOOLEAN :
          LET c == [call EXCEPT !.primary = "malformed"]
          IN  SaveAndReturn(c, <<>>, written, CallRetry(c))
    /\ CallFrame

\* the primary query rejected: the inner catch retries
CallPrimaryFail ==
    /\ call.pc = "primary"
    /\ call' = CallRetry([call EXCEPT !.primary = "fail"])
    /\ UNCHANGED files
    /\ CallFrame

\* the fallback query answered with a rowset
CallFallbackOk ==
    /\ call.pc = "fallback"
    /\ \E written \in BOOLEAN :
          LET c == [call EXCEPT !.fallback = "ok"]
          IN  SaveAndReturn(c, QueryRows(call.T, call.an, ChildLimit), written,
                            CallGiveUp(c))
    /\ CallFrame

\* the fallback query answered without a rowset
CallFallbackMalformed ==
    /\ call.pc = "fallback"
    /\ \E written \in BOOLEAN :
          LET c == [call EXCEPT !.fallback = "malformed"]
          IN  SaveAndReturn(c, <<>>, written, CallGiveUp(c))
    /\ CallFrame

\* the fallback query rejected: the outer catch returns []
CallFallbackFail ==
    /\ call.pc = "fallback"
    /\ call' = CallGiveUp([call EXCEPT !.fallback = "fail"])
    /\ UNCHANGED files
    /\ CallFrame

FetcherInit ==
    /\ call \in {[NoCall EXCEPT !.fn = fn, !.T = FetcherTable[fn], !.pc = "auth", !.an = an] :
                    fn \in DOMAIN FetcherTable, an \in CallKeys}
    /\ db = [T \in {"F0401", "F01151", "F0116"} |-> ChildTable(T)]
    /\ dictFile \in DictFileStates
    /\ enrich = NoEnrich
    /\ conn = NoConn
    /\ prof = NoProf
    /\ snapPc = "off"
    /\ sheets = <<>>
    /\ vendorsMaster = <<>>
    /\ valid = "unset"
    /\ mainPc = "off"
    /\ exitCode = 0
    /\ termMsgs = 0
    /\ bvPc = "idle"
    /\ primaryQuery = "none"
    /\ vendorRowset = <<>>
    /\ idx = 0
    /\ fieldDetails = NoDict
    /\ vendorsRaw = <<>>
    /\ vendorsEnhanced = <<>>
    /\ fetch = [c \in Children |-> IdleFetch]
    /\ started = {}
    /\ files = <<>>

FetcherNext ==
    \/ CallAuthOk
    \/ CallAuthFail
    \/ CallPrimaryOk
    \/ CallPrimaryMalformed
    \/ CallPrimaryFail
    \/ CallFallbackOk
    \/ CallFallbackMalformed
    \/ CallFallbackFail

SpecFetcher == FetcherInit /\ [][FetcherNext]_vars

-----------------------------------------------------------------------------
(* JDEConnectionService: authenticate, validateConnection, getToken.       *)

\* what response.data?.userInfo?.token of POST /v2/tokenrequest may hold
TokenResponses == {Str(<<"t", "1">>), Str(<<"t", "2">>), Str(<<>>), Undefined}

\* getToken(): the stored token
getToken == conn.token

ConnFrame ==
    /\ UNCHANGED <<db, dictFile, enrich, call, prof>>
    /\ UNCHANGED <<batchVars, snapVars>>

\* the fields of conn that describe the call being made
NewCall(op, pc) ==
    [conn EXCEPT !.op = op, !.pc = pc, !.calls = @ + 1,
                 !.hadToken = Truthy(conn.token),
                 !.tokenRequests = IF pc = "tokenrequest" THEN 1 ELSE 0,
                 !.authOutcome = "none", !.configOutcome = "none",
                 !.outcome = "pending", !.value = Undefined]

\* authenticate() is called once the previous call has settled: POST
\* /v2/tokenrequest is issued
CallAuthenticate ==
    /\ conn.pc \in {"ready", "done"}
    /\ conn.calls < MaxCalls
    /\ conn' = NewCall("authenticate", "tokenrequest")
    /\ ConnFrame

\* validateConnection() is called: it authenticates if (!this.token), else it
\* goes on to GET /v2/defaultconfig
CallValidateConnection ==
    /\ conn.pc \in {"ready", "done"}
    /\ conn.calls < MaxCalls
    /\ conn' = NewCall("validateConnection",
                       IF ~Truthy(conn.token) THEN "tokenrequest" ELSE "defaultconfig")
    /\ ConnFrame

\* authenticate() threw inside its try: its catch logs and rethrows; when
\* validateConnection made the call its own catch logs and returns false
AuthenticateThrows(c) ==
    IF c.op = "authenticate"
    THEN [c EXCEPT !.pc = "done", !.outcome = "threw", !.errors = @ + 1]
    ELSE [c EXCEPT !.pc = "done", !.outcome = "returned", !.value = Bool(FALSE),
                   !.errors = @ + 2]

\* the token request was answered with a token: it is stored and returned
TokenGranted ==
    /\ conn.pc = "tokenrequest"
    /\ \E tok \in TokenResponses :
          /\ Truthy(tok)
          /\ conn' = IF conn.op = "authenticate"
                     THEN [conn EXCEPT !.token = tok, !.authOutcome = "granted",
                                       !.pc = "done", !.outcome = "returned", !.value = tok]
                     ELSE [conn EXCEPT !.token = tok, !.authOutcome = "granted",
                                       !.pc = "defaultconfig"]
    /\ ConnFrame

\* a mutant of TokenMissing: the test `if (!this.token) throw` is left out
TokenMissing_Returns ==
    /\ conn.pc = "tokenrequest"
    /\ \E tok \in TokenResponses :
          /\ ~Truthy(tok)
          /\ conn' = IF conn.op = "authenticate"
                     THEN [conn EXCEPT !.token = Null, !.authOutcome = "no_token",
                                       !.pc = "done", !.outcome = "returned", !.value = Null]
                     ELSE [conn EXCEPT !.token = Null, !.authOutcome = "no_token",
                                       !.pc = "defaultconfig"]
    /\ ConnFrame

\* the token request was answered without a token: this.token becomes null
\* and 'No token received' is thrown
TokenMissing ==
    /\ conn.pc = "tokenrequest"
    /\ \E tok \in TokenResponses :
          /\ ~Truthy(tok)
          /\ conn' = AuthenticateThrows([conn EXCEPT !.token = Null,
                                                     !.authOutcome = "no_token"])
    /\ ConnFrame

\* the token request was rejected: this.token keeps its value
TokenRequestFail ==
    /\ conn.pc = "tokenrequest"
    /\ conn' = AuthenticateThrows([conn EXCEPT !.authOutcome = "rejected"])
    /\ ConnFrame

\* GET /v2/defaultconfig resolved: validateConnection returns true
ConfigOk ==
    /\ conn.pc = "defaultconfig"
    /\ conn' = [conn EXCEPT !.configOutcome = "ok", !.pc = "done",
                            !.outcome = "returned", !.value = Bool(TRUE)]
    /\ ConnFrame

\* GET /v2/defaultconfig rejected: the catch logs and returns false
ConfigFail ==
    /\ conn.pc = "defaultconfig"
    /\ conn' = [conn EXCEPT !.configOutcome = "failed", !.pc = "done",
                            !.outcome = "returned", !.value = Bool(FALSE),
                            !.errors = @ + 1]
    /\ ConnFrame

ConnInit ==
    /\ conn = [NoConn EXCEPT !.pc = "ready"]
    /\ prof = NoProf
    /\ db = [T \in Tables |-> <<>>]
    /\ dictFile \in {[T \in DictTables |-> "absent"]}
    /\ enrich = NoEnrich
    /\ call = NoCall
    /\ snapPc = "off"
    /\ sheets = <<>>
    /\ vendorsMaster = <<>>
    /\ valid = "unset"
    /\ mainPc = "off"
    /\ exitCode = 0
    /\ termMsgs = 0
    /\ bvPc = "idle"
    /\ primaryQuery = "none"
    /\ vendorRowset = <<>>
    /\ idx = 0
    /\ fieldDetails = NoDict
    /\ vendorsRaw = <<>>
    /\ vendorsEnhanced = <<>>
    /\ fetch = [c \in Children |-> IdleFetch]
    /\ started = {}
    /\ files = <<>>

ConnNext ==
    \/ CallAuthenticate
    \/ CallValidateConnection
    \/ TokenGranted
    \/ TokenMissing
    \/ TokenRequestFail
    \/ ConfigOk
    \/ ConfigFail

SpecConn == ConnInit /\ [][ConnNext]_vars

-----------------------------------------------------------------------------
(* The profile-based entry point: main() with getAllVendors and            *)
(* getVendorFullProfile (modules/vendorProfile.ts).                        *)

\* $limit of getAllVendors
AllVendorsLimit == 10

\* $limit of the four profile fetchers
ProfileLimit == 10

\* the tables of getVendorMailingInfo, getVendorPhones, getSupplierMasterData
\* and getSupplierPerformance
ProfileTables == {"F0116", "F0115", "F0401", "F43230"}

\* key.toUpperCase()
toUpperCase(chars) ==
    LET LowerCase == <<"a", "b", "c", "d", "e", "f", "g", "h", "i", "j", "k", "l", "m",
                       "n", "o", "p", "q", "r", "s", "t", "u", "v", "w", "x", "y", "z">>
        UpperCase == <<"A", "B", "C", "D", "E", "F", "G", "H", "I", "J", "K", "L", "M",
                       "N", "O", "P", "Q", "R", "S", "T", "U", "V", "W", "X", "Y", "Z">>
    IN  [j \in 1..Len(chars) |->
            IF \E m \in 1..26 : LowerCase[m] = chars[j]
            THEN UpperCase[CHOOSE m \in 1..26 : LowerCase[m] = chars[j]]
            ELSE chars[j]]

\* chars.includes(sub)
includes(chars, sub) ==
    \E j \in 0..(Len(chars) - Len(sub)) :
        \A m \in 1..Len(sub) : chars[j + m] = sub[m]

\* the positions of the keys of the row that contain 'AN8'; KeyChars gives
\* the characters of the column names of the F0101 rows
AN8Keys(vendor) ==
    LET KeyChars ==
            [F0101_AN8 |-> <<"F", "0", "1", "0", "1", "_", "A", "N", "8">>,
             F0101_AN81 |-> <<"F", "0", "1", "0", "1", "_", "A", "N", "8", "1">>,
             F0101_ALPH |-> <<"F", "0", "1", "0", "1", "_", "A", "L", "P", "H">>,
             F0101_TAX |-> <<"F", "0", "1", "0", "1", "_", "T", "A", "X">>,
             f0101_an8 |-> <<"f", "0", "1", "0", "1", "_", "a", "n", "8">>]
    IN  {j \in 1..Len(vendor) :
            includes(toUpperCase(KeyChars[vendor[j].k]), <<"A", "N", "8">>)}

\* the key search of main(): the value of the first key containing 'AN8'
\* (the loop breaks there), null when there is none
FindAddressNumber(vendor) ==
    IF AN8Keys(vendor) = {} THEN Null
    ELSE vendor[CHOOSE j \in AN8Keys(vendor) : \A m \in AN8Keys(vendor) : j <= m].val

\* the rows of the remote F0101 table, in table order
ProfileVendorTable ==
    << VendorRow(Str(Key4242)),
       << Entry("F0101_AN8", Str(<<>>)), Entry("F0101_AN81", Num(7)),
          Entry("F0101_ALPH", Str(<<"O", "d", "d">>)) >>,
       VendorRowNoKey,
       << Entry("f0101_an8", Num(7)), Entry("F0101_AN81", Num(4242)) >> >>

\* the order-preserving selections of at most n elements of a sequence
RECURSIVE Selections(_, _)
Selections(q, n) ==
    IF q = <<>> \/ n = 0 THEN {<<>>}
    ELSE Selections(Tail(q), n)
         \cup {<<Head(q)>> \o r : r \in Selections(Tail(q), n - 1)}

\* body?.rowset || body?.fs_DATABROWSE_<T>?.data?.gridData?.rowset || []
\* ResponseShape: where the body of a 2xx answer for T carries the rowset: at
\* the top level, under fs_DATABROWSE_<T>.data.gridData, or nowhere
RowsetOf(T, rows) ==
    LET ResponseShape ==
            [F0116 |-> "gridData", F0115 |-> "rowset", F0401 |-> "gridData",
             F43230 |-> "none"]
    IN  IF ResponseShape[T] \in {"rowset", "gridData"} THEN rows ELSE <<>>

\* a profile fetcher that was not called
IdleFetcher ==
    [pc |-> "idle", auth |-> "none", answer |-> "none", queries |-> <<>>, rows |-> <<>>]

\* the callback of vendors.map up to its first await: the key search, then
\* either return null or getVendorFullProfile, which calls the four fetchers
StartSlot(vendor) ==
    LET addressNumber == FindAddressNumber(vendor)
    IN  IF ~Truthy(addressNumber)
        THEN [an |-> addressNumber, pc |-> "settled", err |-> <<>>,
              t |-> [T \in ProfileTables |-> IdleFetcher],
              result |-> [kind |-> "null"]]
        ELSE [an |-> addressNumber, pc |-> "fetching", err |-> <<>>,
              t |-> [T \in ProfileTables |->
                        [IdleFetcher EXCEPT !.pc = "auth", !.auth = "pending"]],
              result |-> [kind |-> "pending"]]

\* the object returned by getVendorFullProfile
FullProfile(addressNumber, t) ==
    [addressNumber |-> addressNumber,
     mailing |-> RowsetOf("F0116", t["F0116"].rows),
     phones |-> RowsetOf("F0115", t["F0115"].rows),
     master |-> RowsetOf("F0401", t["F0401"].rows),
     performance |-> RowsetOf("F43230", t["F43230"].rows)]

\* a fetcher of slot i settled as f: Promise.all of getVendorFullProfile
\* rejects with the first rejection and resolves when all four have resolved,
\* and the callback of vendors.map turns either into its result. The fetchers
\* still in flight when Promise.all rejects run on, but nothing reads what
\* they settle with: their steps are not followed.
\* MergedEntry is { ...vendor, ...profile } (no column of a row bears the name
\* of a property of the profile), ErrorEntry { ...vendor, error: err?.message || err }.
AfterFetcher(i, T, f) ==
    LET slot == prof.slots[i]
        t == [slot.t EXCEPT ![T] = f]
        MergedEntry(vendor, profile) ==
            [kind |-> "merged", vendor |-> vendor, profile |-> profile]
        ErrorEntry(vendor, err) == [kind |-> "error", vendor |-> vendor, error |-> err]
    IN  IF f.pc = "rejected"
        THEN [slot EXCEPT !.t = t, !.pc = "settled", !.err = <<T, f.auth, f.answer>>,
                          !.result = ErrorEntry(prof.vendors[i], <<T, f.auth, f.answer>>)]
        ELSE IF \A U \in ProfileTables : t[U].pc = "resolved"
        THEN [slot EXCEPT !.t = t, !.pc = "settled",
                          !.result = MergedEntry(prof.vendors[i], FullProfile(slot.an, t))]
        ELSE [slot EXCEPT !.t = t]

ProfFrame ==
    /\ UNCHANGED <<db, dictFile, enrich, call, conn>>
    /\ UNCHANGED <<batchVars, snapVars>>

\* getAllVendors resolved with the rowset: every callback of vendors.map runs
\* up to its first await
ProfVendorsOk ==
    /\ prof.pc = "vendors"
    /\ LET vendors == Take(db["F0101"], AllVendorsLimit)
       IN  prof' = [prof EXCEPT !.pc = "profiles", !.vendors = vendors,
                                !.slots = [i \in 1..Len(vendors) |-> StartSlot(vendors[i])]]
    /\ ProfFrame

\* getAllVendors got a body without the rowset: `|| []`, no vendor
ProfVendorsMalformed ==
    /\ prof.pc = "vendors"
    /\ prof' = [prof EXCEPT !.pc = "profiles", !.vendors = <<>>, !.slots = <<>>]
    /\ ProfFrame

\* getAllVendors rejected (authenticate or the F0101 query): main() rejects
ProfVendorsFail ==
    /\ prof.pc = "vendors"
    /\ prof' = [prof EXCEPT !.pc = "rejected"]
    /\ ProfFrame

\* jde.authenticate() of a profile fetcher resolved: its one query,
\* '<T>.AN8 EQ <addressNumber>', is issued
PfAuthOk ==
    /\ prof.pc = "profiles"
    /\ \E i \in 1..Len(prof.slots) : \E T \in ProfileTables :
          /\ prof.slots[i].pc = "fetching"
          /\ prof.slots[i].t[T].pc = "auth"
          /\ prof' = [prof EXCEPT !.slots[i].t[T] =
                         [@ EXCEPT !.pc = "query", !.auth = "ok", !.answer = "pending",
                                   !.queries = Append(@, T \o ".AN8")]]
    /\ ProfFrame

\* jde.authenticate() of a profile fetcher threw: it is outside the try, the
\* fetcher rejects
PfAuthFail ==
    /\ prof.pc = "profiles"
    /\ \E i \in 1..Len(prof.slots) : \E T \in ProfileTables :
          /\ prof.slots[i].pc = "fetching"
          /\ prof.slots[i].t[T].pc = "auth"
          /\ prof' = [prof EXCEPT !.slots[i] =
                         AfterFetcher(i, T, [prof.slots[i].t[T] EXCEPT
                                                !.pc = "rejected", !.auth = "failed"])]
    /\ ProfFrame

\* the query of a profile fetcher was answered: return response.data
PfQueryOk ==
    /\ prof.pc = "profiles"
    /\ \E i \in 1..Len(prof.slots) : \E T \in ProfileTables :
          /\ prof.slots[i].pc = "fetching"
          /\ prof.slots[i].t[T].pc = "query"
          /\ prof' = [prof EXCEPT !.slots[i] =
                         AfterFetcher(i, T, [prof.slots[i].t[T] EXCEPT
                                                !.pc = "resolved", !.answer = "resolved",
                                                !.rows = QueryRows(T, String(prof.slots[i].an),
                                                                   ProfileLimit)])]
    /\ ProfFrame

\* a mutant of PfQueryFail: the catch returns an empty body instead of rethrowing
PfQueryFail_Swallowed ==
    /\ prof.pc = "profiles"
    /\ \E i \in 1..Len(prof.slots) : \E T \in ProfileTables :
          /\ prof.slots[i].pc = "fetching"
          /\ prof.slots[i].t[T].pc = "query"
          /\ prof' = [prof EXCEPT !.slots[i] =
                         AfterFetcher(i, T, [prof.slots[i].t[T] EXCEPT
                                                !.pc = "resolved", !.answer = "rejected"])]
    /\ ProfFrame

\* the query of a profile fetcher rejected: the catch logs and rethrows
PfQueryFail ==
    /\ prof.pc = "profiles"
    /\ \E i \in 1..Len(prof.slots) : \E T \in ProfileTables :
          /\ prof.slots[i].pc = "fetching"
          /\ prof.slots[i].t[T].pc = "query"
          /\ prof' = [prof EXCEPT !.slots[i] =
                         AfterFetcher(i, T, [prof.slots[i].t[T] EXCEPT
                                                !.pc = "rejected", !.answer = "rejected"])]
    /\ ProfFrame

\* a mutant of ProfJoin: the null results are left out of the list
ProfJoin_DropsNull ==
    /\ prof.pc = "profiles"
    /\ \A i \in 1..Len(prof.slots) : prof.slots[i].pc = "settled"
    /\ prof' = [prof EXCEPT !.pc = "done",
                            !.fullProfiles =
                                SelectSeq([i \in 1..Len(prof.slots) |-> prof.slots[i].result],
                                          LAMBDA r : r.kind # "null")]
    /\ ProfFrame

\* Promise.all over the callbacks resolved: fullProfiles, in the order of the rows
ProfJoin ==
    /\ prof.pc = "profiles"
    /\ \A i \in 1..Len(prof.slots) : prof.slots[i].pc = "settled"
    /\ prof' = [prof EXCEPT !.pc = "done",
                            !.fullProfiles = [i \in 1..Len(prof.slots) |->
                                                 prof.slots[i].result]]
    /\ ProfFrame

ProfInit ==
    /\ prof \in {[NoProf EXCEPT !.pc = "vendors"]}
    /\ conn = NoConn
    /\ db \in {[T \in {"F0101"} \cup ProfileTables |->
                   IF T = "F0101" THEN rows ELSE ChildTable(T)] :
                  rows \in Selections(ProfileVendorTable, MaxVendors)}
    /\ dictFile \in {[T \in DictTables |-> "absent"]}
    /\ enrich = NoEnrich
    /\ call = NoCall
    /\ snapPc = "off"
    /\ sheets = <<>>
    /\ vendorsMaster = <<>>
    /\ valid = "unset"
    /\ mainPc = "off"
    /\ exitCode = 0
    /\ termMsgs = 0
    /\ bvPc = "idle"
    /\ primaryQuery = "none"
    /\ vendorRowset = <<>>
    /\ idx = 0
    /\ fieldDetails = NoDict
    /\ vendorsRaw = <<>>
    /\ vendorsEnhanced = <<>>
    /\ fetch = [c \in Children |-> IdleFetch]
    /\ started = {}
    /\ files = <<>>

ProfNext ==
    \/ ProfVendorsOk
    \/ ProfVendorsMalformed
    \/ ProfVendorsFail
    \/ PfAuthOk
    \/ PfAuthFail
    \/ PfQueryOk
    \/ PfQueryFail
    \/ ProfJoin

SpecProfile == ProfInit /\ [][ProfNext]_vars

-----------------------------------------------------------------------------
(* Properties of the child fetch calls.                                    *)

\* both queries of the call were rejected
BothQueriesFailed(f) == f.primary = "fail" /\ f.fallback = "fail"

\* C1: a child-table fetch never raises to its caller, whichever of its
\* steps fails (authentication included): no call ever ends rejected.
C1_FetchNeverRaises == \A c \in Children : fetch[c].pc # "rejected"

\* C2: fallback idempotence: a call whose primary query succeeded never
\* issues the fallback query, whatever the later steps do.
C2_NoFallbackAfterPrimarySuccess ==
    \A c \in Children : fetch[c].primary = "ok" => fetch[c].fallback = "none"

\* C3: a primary answer without a rowset counts as a failed request: a call
\* never returns after such an answer without having issued the fallback query.
C3_MalformedPrimaryRetries ==
    \A c \in Children :
        (fetch[c].pc = "resolved" /\ fetch[c].primary = "malformed")
            => fetch[c].fallback # "none"

\* C4: when both queries of a child fail, the call resolves with empty raw
\* and enhanced sequences, buildVendorsJson is not aborted, and the parent's
\* entries, once the run has gone past the join of that parent, show the
\* child as an empty sequence.
C4_DoubleFailureAbsorbed ==
    \A c \in Children :
        BothQueriesFailed(fetch[c]) =>
            /\ fetch[c].pc = "resolved"
            /\ fetch[c].raw = <<>> /\ fetch[c].enhanced = <<>>
            /\ bvPc # "rejected"
            /\ bvPc = "delay" =>
                  /\ vendorsRaw # <<>> /\ vendorsEnhanced # <<>>
                  /\ RawEntry(fetch[c].an, vendorRowset[idx], fetch)
                        = vendorsRaw[Len(vendorsRaw)]

\* the enriched rows carry no details at all
NoDetailsAnywhere(enhanced) ==
    \A j \in 1..Len(enhanced) :
        \A m \in 1..Len(enhanced[j]) : ~enhanced[j][m].hasDetails

\* C5: graceful degradation: with the dictionary file of its table absent, a
\* call whose query returned n rows returns n enriched rows, none with details.
C5_GracefulDegradation ==
    \A c \in Children :
        ( /\ dictFile[c] = "absent"
          /\ fetch[c].pc = "resolved"
          /\ (fetch[c].primary = "ok" \/ fetch[c].fallback = "ok") )
            => /\ Len(fetch[c].enhanced) = Len(fetch[c].rowset)
               /\ Len(fetch[c].raw) = Len(fetch[c].rowset)
               /\ NoDetailsAnywhere(fetch[c].enhanced)

-----------------------------------------------------------------------------
(* Properties of buildVendorsJson and main().                              *)

StrUndefined == <<"u", "n", "d", "e", "f", "i", "n", "e", "d">>

StrNull == <<"n", "u", "l", "l">>

\* the key field of the row, as a string, is empty, "undefined" or "null"
KeyMissing(row) ==
    LET v == Get(row, "F0101_AN8")
        text == IF v.t = "string" THEN v.s ELSE String(v)
    IN  text \in {<<>>, StrUndefined, StrNull}

\* C6: skip-invalid-parent: for a primary row whose key is empty, "undefined"
\* or "null", no child fetch is called, no query carries such a key, and
\* neither collection gets an entry for the row.
C6_SkipInvalidParent ==
    /\ \A i \in 1..Len(vendorRowset) :
          KeyMissing(vendorRowset[i]) =>
             /\ i \notin started
             /\ \A j \in 1..Len(vendorsRaw) : vendorsRaw[j].vendor # vendorRowset[i]
    /\ \A c \in Children :
          fetch[c].pc # "idle" => fetch[c].an \notin {<<>>, StrUndefined, StrNull}
    /\ \A j \in 1..Len(vendorsEnhanced) :
          vendorsEnhanced[j].addressNumber \notin {<<>>, StrUndefined, StrNull}
    /\ Len(vendorsEnhanced) <= Cardinality(started)
    /\ Len(vendorsRaw) <= Cardinality(started)

\* an invalid row was skipped and the row after it processed to the end
C6_Witness ==
    /\ bvPc = "resolved"
    /\ \E i \in 1..Len(vendorRowset) :
          /\ KeyMissing(vendorRowset[i])
          /\ \E j \in started : j > i
    /\ Len(vendorsEnhanced) = 1

RECURSIVE ValidKeys(_)
\* the keys of the rows that have one, in the order of the rows
ValidKeys(rows) ==
    IF rows = <<>> THEN <<>>
    ELSE IF KeyMissing(Head(rows)) THEN ValidKeys(Tail(rows))
         ELSE <<String(Get(Head(rows), "F0101_AN8"))>> \o ValidKeys(Tail(rows))

AddressNumbers(entries) == [j \in 1..Len(entries) |-> entries[j].addressNumber]

\* C7: at the end of a successful run the addressNumber values of the
\* enhanced collection are the valid keys of the primary rows, in their order.
C7_OneRecordPerValidParent ==
    bvPc = "resolved" =>
        /\ AddressNumbers(vendorsEnhanced) = ValidKeys(vendorRowset)
        /\ AddressNumbers(vendorsRaw) = ValidKeys(vendorRowset)

\* a successful run over two valid parents with different keys
C7_Witness ==
    /\ bvPc = "resolved"
    /\ Len(vendorsEnhanced) = 2
    /\ vendorsEnhanced[1].addressNumber # vendorsEnhanced[2].addressNumber

\* C9: when the F0101 query of buildVendorsJson fails, buildVendorsJson
\* rejects, no child fetch is ever called and no file is written.
C9_PrimaryFailureFatal ==
    primaryQuery = "fail" =>
        /\ bvPc = "rejected"
        /\ started = {}
        /\ \A c \in Children : fetch[c].pc = "idle"
        /\ vendorsRaw = <<>> /\ vendorsEnhanced = <<>>
        /\ files = <<>>

\* the F0101 query failed and the process has ended
C9_Witness == primaryQuery = "fail" /\ mainPc = "exited"

\* C10: a run that ends because connection validation failed or because
\* buildVendorsJson rejected on the primary-table fetch reports one terminal
\* error message and exits with a non-zero status.
C10_FailedRunExitsNonZero ==
    ( /\ mainPc = "exited"
      /\ (bvPc = "idle" \/ (bvPc = "rejected" /\ primaryQuery = "fail")) )
        => (exitCode # 0 /\ termMsgs = 1)

-----------------------------------------------------------------------------
(* Properties of buildVendorsMaster.                                       *)

\* the row has no parent key: neither header gives a value, or an empty one
SheetKeyMissing(row) ==
    LET v == AN8Of(row)
    IN  v.t \in {"undefined", "null"} \/ (v.t = "string" /\ v.s = <<>>)

\* C8: buildVendorsMaster writes one record per primary row with a valid key
\* and none for a row whose key is missing or empty: the number of records
\* is the number of valid rows and no record has an empty or undefined AN8.
C8_SnapshotSkipsInvalidParent ==
    snapPc = "resolved" =>
        LET f0101Data == loadTableData(sheets["F0101"], dictFile["F0101"])
        IN  /\ Len(vendorsMaster) =
                  Cardinality({i \in 1..Len(f0101Data) : ~SheetKeyMissing(f0101Data[i])})
            /\ \A j \in 1..Len(vendorsMaster) :
                  /\ vendorsMaster[j].AN8.t \notin {"undefined", "null"}
                  /\ vendorsMaster[j].AN8 # Str(<<>>)

-----------------------------------------------------------------------------
(* Properties of the run's scheduling.                                     *)

\* C11: when validateConnection() returned false the process has exited
\* without calling buildVendorsJson: no F0101 query and no child fetch or
\* child query was ever issued, and nothing was written.
C11_InvalidConnectionIsFatal ==
    valid = "false" =>
        /\ mainPc = "exited"
        /\ bvPc = "idle"
        /\ primaryQuery = "none"
        /\ started = {}
        /\ \A c \in Children : fetch[c] = IdleFetch
        /\ files = <<>>

\* validateConnection() returned false and the process exited with status 1
C11_Witness == valid = "false" /\ mainPc = "exited" /\ exitCode = 1


\* the fetches that were called all carry the key of the row the loop is at
OneParentInFlight ==
    \A c \in Children :
        fetch[c].pc # "idle" =>
            /\ idx \in 1..Len(vendorRowset)
            /\ fetch[c].an = AddressNumberOf(vendorRowset[idx])

\* a step that calls the fetches of a parent finds no fetch in flight and
\* one entry in each collection for every parent started before
StartsAfterSettled ==
    started' # started =>
        /\ \A c \in Children : ~InFlight(fetch[c])
        /\ Len(vendorsRaw) = Cardinality(started)
        /\ Len(vendorsEnhanced) = Cardinality(started)

\* a step that appends a parent's entries or leaves the parent finds its
\* three fetches settled
LeavesAfterSettled ==
    (vendorsRaw' # vendorsRaw \/ vendorsEnhanced' # vendorsEnhanced \/ idx' # idx)
        => \A c \in Children : ~InFlight(fetch[c])

\* C12: no concurrency across parents: the fetches in flight all belong to
\* the parent the loop is at, and the fetches of the next parent are called
\* only after those of the current one settled and its raw and enhanced
\* entries were appended.
C12_NoConcurrencyAcrossParents ==
    []OneParentInFlight /\ [][StartsAfterSettled /\ LeavesAfterSettled]_vars

\* the fetches of a second parent are in flight, the first parent's entry
\* is in both collections
C12_Witness ==
    /\ Cardinality(started) = 2
    /\ \E c \in Children : InFlight(fetch[c])
    /\ Len(vendorsRaw) = 1 /\ Len(vendorsEnhanced) = 1


\* the step in which the pause of 3000 ms elapses
IsDelayStep == bvPc = "delay" /\ bvPc' = "loop"

\* the fetches of a parent are called only when every parent processed
\* before has been left
StartsAfterLeaving == started' # started => \A i \in started : i < idx

\* a processed parent is left by the delay step and by no other step, and
\* the delay step leaves exactly one processed parent
LeftByDelayOnly ==
    /\ (idx' # idx /\ idx \in started) => IsDelayStep
    /\ IsDelayStep => (idx \in started /\ idx' = idx + 1)

\* C13: pacing: between the child queries of one processed parent and those
\* of the next processed parent the delay step occurs exactly once.
C13_Pacing == [][StartsAfterLeaving /\ LeftByDelayOnly]_vars

\* the primary query of a child of the second processed parent is out
C13_Witness ==
    /\ Cardinality(started) = 2
    /\ \E c \in Children : fetch[c].pc = "primary" /\ fetch[c].primary = "sent"


\* the slot of the entry that belongs to child table T
SlotOf(entry, T) ==
    CASE T = "F0111" -> entry.contactInfo
      [] T = "F0115" -> entry.addressBook
      [] OTHER -> entry.mailingAddress

\* what the server answers for table T and the key of the entry
AnswerFor(T, entry) == QueryRows(T, entry.addressNumber, ChildLimit)

\* every slot of every entry is empty (the fetch gave up or the answer had
\* no rowset) or holds the rows of its own table for the entry's own key,
\* enriched with the dictionary of that table in the enhanced collection
SlotsHoldOwnTable ==
    \A T \in Children :
        /\ \A j \in 1..Len(vendorsRaw) :
              SlotOf(vendorsRaw[j], T) \in {<<>>, AnswerFor(T, vendorsRaw[j])}
        /\ \A j \in 1..Len(vendorsEnhanced) :
              SlotOf(vendorsEnhanced[j], T) \in
                 {<<>>, EnrichRowset(AnswerFor(T, vendorsEnhanced[j]),
                                     LoadFieldDetails(T, dictFile[T]).dict)}

\* the three fetches are called in one step with the same key, and an entry
\* is composed only when the three have resolved
FanOutFanIn ==
    /\ (\E c \in Children : fetch[c].pc = "idle" /\ fetch'[c].pc # "idle")
          => \A c \in Children :
                /\ fetch[c].pc = "idle"
                /\ fetch'[c] = CalledFetch(AddressNumberOf(vendorRowset[idx]))
    /\ (vendorsRaw' # vendorsRaw \/ vendorsEnhanced' # vendorsEnhanced)
          => \A c \in Children : fetch[c].pc = "resolved"

\* C14: fan-out/fan-in per parent: the three child fetches of a parent are
\* started together and joined before its record is composed, and the
\* contactInfo, addressBook and mailingAddress slots hold the results of the
\* F0111, F0115 and F0116 fetches for that parent's key, whatever the order
\* in which the fetches completed.
C14_FanOutFanIn == []SlotsHoldOwnTable /\ [][FanOutFanIn]_vars

\* a record whose three slots are all filled, in both collections
C14_Witness ==
    /\ Len(vendorsRaw) >= 1 /\ Len(vendorsEnhanced) >= 1
    /\ \A T \in Children :
          SlotOf(vendorsRaw[1], T) # <<>> /\ SlotOf(vendorsEnhanced[1], T) # <<>>

-----------------------------------------------------------------------------
(* Properties of the enrichers.                                            *)

\* the value is null or a string of whitespace characters only
NullOrBlank(v) ==
    v.t = "null" \/ (v.t = "string" /\ \A i \in 1..Len(v.s) : IsWhitespace(v.s[i]))

\* the fields of the raw row that are to be kept, in the row's order
Retained(raw) == SelectSeq(raw, LAMBDA e : ~NullOrBlank(e.val))

\* the dictionary of table T as its file gives it
DictionaryOf(T) ==
    IF dictFile[T] = "present" THEN BuildFieldMap(DictSheet(T)) ELSE NoDict

\* C15: omission law: a field whose raw value is null or a whitespace-only
\* string has no entry at all in the enriched row, in enrichRow and in the
\* inline enrichers of the fetch modules and of buildVendorsJson.
C15_OmissionLaw ==
    enrich.by # "none" =>
        \A i \in 1..Len(enrich.raw) :
            NullOrBlank(enrich.raw[i].val) =>
                \A j \in 1..Len(enrich.out) :
                    /\ enrich.out[j].k # enrich.raw[i].k
                    /\ enrich.out[j].k # enrich.T \o "_" \o enrich.raw[i].k

\* a fetch module's enricher dropped a whitespace-only field and kept another
C15_Witness ==
    /\ enrich.by = "EnrichRecord"
    /\ Len(enrich.raw) = 2 /\ Len(enrich.out) = 1
    /\ \E i \in 1..2 : enrich.raw[i].val = Str(<<" ", "\t">>)

\* C16: retention: the enriched row has exactly one entry per field that is
\* neither null nor whitespace-only (0 and false included), with the raw
\* value unchanged, in the raw row's order minus the omitted fields.
C16_Retention ==
    enrich.by # "none" =>
        LET kept == Retained(enrich.raw)
        IN  /\ Len(enrich.out) = Len(kept)
            /\ \A j \in 1..Len(kept) :
                  /\ enrich.out[j].value = kept[j].val
                  /\ enrich.out[j].k \in {kept[j].k, enrich.T \o "_" \o kept[j].k}

\* enrichRow kept a 0 and a false
C16_Witness ==
    /\ enrich.by = "enrichRow"
    /\ Len(enrich.out) = 2
    /\ \E i, j \in 1..2 : /\ enrich.out[i].value = Num(0)
                          /\ enrich.out[j].value = Bool(FALSE)

\* C17: metadata attachment law: a retained field of a row of table T has
\* non-null details exactly when the dictionary of T has the key T_f of the
\* field (the key under which the dataservice row carries it; for a sheet
\* row, the table name joined to the header), and a missing entry gives null.
C17_MetadataAttachment ==
    enrich.by # "none" =>
        LET kept == Retained(enrich.raw)
            dict == DictionaryOf(enrich.T)
        IN  /\ Len(enrich.out) = Len(kept)
            /\ \A j \in 1..Len(kept) :
                  LET fieldKey == IF enrich.by = "enrichRow"
                                  THEN enrich.T \o "_" \o kept[j].k
                                  ELSE kept[j].k
                  IN  /\ enrich.out[j].hasDetails <=> fieldKey \in DOMAIN dict
                      /\ fieldKey \in DOMAIN dict =>
                            enrich.out[j].details.fieldName = fieldKey
                      /\ fieldKey \notin DOMAIN dict =>
                            enrich.out[j].details = NoDetails

\* the enricher of buildVendorsJson met a field of the dictionary and one
\* the dictionary does not have
C17_Witness ==
    /\ enrich.by = "EnrichVendor"
    /\ \E i, j \in 1..Len(enrich.out) :
          enrich.out[i].hasDetails /\ ~enrich.out[j].hasDetails

\* C18: every key of an enriched row is, verbatim, a key of the raw row it
\* was produced from, for enrichRow and for the inline enrichers.
C18_KeysVerbatim ==
    enrich.by # "none" =>
        \A j \in 1..Len(enrich.out) : HasKey(enrich.raw, enrich.out[j].k)

-----------------------------------------------------------------------------
(* Properties of the records of buildVendorsMaster.                        *)

\* the one-to-many child tables of a master record
ManyTables == {"F0115", "F01151", "F0116", "F0111"}

\* the rows of table T, as read from its sheet, whose key is the given one
MatchingRows(T, an8) ==
    SelectSeq(loadTableData(sheets[T], dictFile[T]),
              LAMBDA row : /\ ~SheetKeyMissing(row)
                           /\ an8.t \in {"string", "number"}
                           /\ String(AN8Of(row)) = String(an8))

\* C19: cardinality respected: in every master record the F0401 slot is
\* absent when no F0401 row matches the record's key and otherwise is the
\* single enriched row of the first matching row in source order; the slots
\* of F0115, F01151, F0116 and F0111 are sequences with one element per
\* matching row, empty when no row matches.
C19_CardinalityRespected ==
    snapPc = "resolved" =>
        \A j \in 1..Len(vendorsMaster) :
            LET rec == vendorsMaster[j]
                one == MatchingRows("F0401", rec.AN8)
            IN  /\ rec.F0401.defined <=> one # <<>>
                /\ rec.F0401.defined =>
                      rec.F0401.row = enrichRow(one[1], DictionaryOf("F0401"), "F0401")
                /\ ~rec.F0401.defined => rec.F0401.row = <<>>
                /\ \A T \in ManyTables :
                      /\ DOMAIN rec[T] = 1..Len(MatchingRows(T, rec.AN8))
                      /\ MatchingRows(T, rec.AN8) = <<>> => rec[T] = <<>>

\* a record with two matching F0401 rows and a record that matches none
C19_Witness ==
    /\ snapPc = "resolved"
    /\ \E i, j \in 1..Len(vendorsMaster) :
          /\ vendorsMaster[i].F0401.defined
          /\ Len(MatchingRows("F0401", vendorsMaster[i].AN8)) = 2
          /\ Len(vendorsMaster[i].F0115) = 2
          /\ ~vendorsMaster[j].F0401.defined
          /\ vendorsMaster[j].F0111 = <<>>

-----------------------------------------------------------------------------
(* Properties of the fetchers called on their own.                         *)

\* C20: the table fetcher has no side effect beyond logging: a fetch function
\* writes no file on its primary path, its fallback path or its failure path.
C20_FetcherWritesNothing == call.pc # "idle" => files = <<>>

-----------------------------------------------------------------------------
(* Properties of the records of buildVendorsJson.                          *)

\* the entry of an enriched row filed under the key, as a set (empty or one)
EntriesAt(enriched, key) == {m \in 1..Len(enriched) : enriched[m].k = key}

\* C21: in every record emitted by buildVendorsJson, addressNumber is the
\* string form of the parent row's F0101_AN8 as fetched; it is the key of the
\* child queries issued for the record and the value of the F0101_AN8 entry
\* of the enriched parent row.
C21_KeyAsFetched ==
    /\ \A j \in 1..Len(vendorsRaw) :
          vendorsRaw[j].addressNumber = String(Get(vendorsRaw[j].vendor, "F0101_AN8"))
    /\ \A j \in 1..Len(vendorsEnhanced) :
          LET e == vendorsEnhanced[j]
          IN  /\ EntriesAt(e.vendor, "F0101_AN8") # {}
              /\ \A m \in EntriesAt(e.vendor, "F0101_AN8") :
                    String(e.vendor[m].value) = e.addressNumber
    /\ bvPc = "delay" =>
          \A c \in Children : fetch[c].an = vendorsRaw[Len(vendorsRaw)].addressNumber

-----------------------------------------------------------------------------
(* Properties of the dictionaries.                                         *)

\* C22: field dictionaries are read-only after load: an enrichment call
\* changes neither the dictionary nor the raw row it is given, and the
\* details it attaches are a fresh copy, so a later change to the enriched
\* row leaves the dictionary as it was loaded.
C22_DictionaryReadOnly ==
    enrich.by # "none" =>
        /\ enrich.dict = DictionaryOf(enrich.T)
        /\ enrich.raw = IF enrich.by = "enrichRow" THEN enrich.fields
                        ELSE Qualified(enrich.T, enrich.fields)
        /\ \A j \in 1..Len(enrich.out) : enrich.out[j].aliasOf = ""

\* the details of an enriched field were changed after the call
C22_Witness ==
    /\ enrich.by # "none"
    /\ \E j \in 1..Len(enrich.out) :
          /\ enrich.out[j].details.itemDescription = "altered"
          /\ enrich.dict[enrich.out[j].details.fieldName].itemDescription # "altered"

-----------------------------------------------------------------------------
(* Properties of JDEConnectionService.                                     *)

\* the call on the connection service has settled
ConnSettled(op) == conn.op = op /\ conn.pc = "done"

\* C23: validateConnection never throws; it requests a token exactly when
\* none was stored at the call, returns true exactly when the token request
\* (if one was made) was answered with a token and /v2/defaultconfig
\* resolved, and false otherwise; authenticate() throws on every answer
\* other than a token, and when it returns the stored token is non-null and
\* is the value returned
C23_ValidateNeverThrows ==
    /\ conn.op = "validateConnection" =>
          /\ conn.outcome # "threw"
          /\ conn.tokenRequests = (IF conn.hadToken THEN 0 ELSE 1)
    /\ ConnSettled("validateConnection") =>
          /\ conn.outcome = "returned"
          /\ conn.value \in {Bool(TRUE), Bool(FALSE)}
          /\ conn.value = Bool(TRUE) <=>
                /\ conn.hadToken \/ conn.authOutcome = "granted"
                /\ conn.configOutcome = "ok"
    /\ ConnSettled("authenticate") =>
          /\ conn.tokenRequests = 1
          /\ conn.outcome = "threw" <=> conn.authOutcome # "granted"
          /\ conn.outcome = "returned" =>
                /\ getToken # Null
                /\ Truthy(getToken)
                /\ getToken = conn.value

\* validateConnection, called with no token stored, got a token response
\* without a token and returned false
C23_Witness ==
    /\ ConnSettled("validateConnection")
    /\ ~conn.hadToken
    /\ conn.authOutcome = "no_token"
    /\ conn.value = Bool(FALSE)
    /\ conn.outcome = "returned"

-----------------------------------------------------------------------------
(* Properties of the retry of a child fetch call.                          *)

\* the inner try of the call raised: the primary query was rejected, or it
\* was answered and the dictionary load that follows it threw
PrimaryAttemptFailed(c) ==
    \/ fetch[c].primary = "fail"
    \/ fetch[c].primary \in {"ok", "malformed"} /\ ~LoadFieldDetails(c, dictFile[c]).ok

\* the try around the fallback raised
FallbackAttemptFailed(c) ==
    \/ fetch[c].fallback = "fail"
    \/ fetch[c].fallback \in {"ok", "malformed"} /\ ~LoadFieldDetails(c, dictFile[c]).ok

\* the queries one call may have issued, in order
QueryOrders(c) == {<<>>, <<"AN8">>, <<"AN8", c \o ".AN8">>}

-----------------------------------------------------------------------------
(* Properties of the result of a child fetch call.                         *)

\* the call returned what its last query was answered with
ReturnedRowset(c) ==
    /\ fetch[c].pc = "resolved"
    /\ ~FallbackAttemptFailed(c)
    /\ fetch[c].primary = "ok" \/ fetch[c].fallback = "ok"

\* C25: in the result of every child fetch raw and enhanced have the same
\* length and enhanced[i] is the enrichment of raw[i]; when the call returns
\* the rows of an answered query, raw is the service's answer in its order
\* (otherwise it is empty), so two matching F0111 rows give two contacts
C25_RawEnhancedAligned ==
    \A c \in Children :
        fetch[c].pc = "resolved" =>
            /\ Len(fetch[c].raw) = Len(fetch[c].enhanced)
            /\ \A i \in 1..Len(fetch[c].raw) :
                  fetch[c].enhanced[i] =
                      EnrichRecord(fetch[c].raw[i], LoadFieldDetails(c, dictFile[c]).dict)
            /\ fetch[c].raw = IF ReturnedRowset(c)
                              THEN QueryRows(c, fetch[c].an, ChildLimit)
                              ELSE <<>>
            /\ (c = "F0111" /\ ReturnedRowset(c) /\ fetch[c].an = Key4242) =>
                  Len(fetch[c].enhanced) = 2

\* the contact fetch of parent 4242 returned its two rows, enriched differently
C25_Witness ==
    /\ fetch["F0111"].pc = "resolved"
    /\ fetch["F0111"].an = Key4242
    /\ Len(fetch["F0111"].raw) = 2
    /\ Len(fetch["F0111"].enhanced) = 2
    /\ fetch["F0111"].enhanced[1] # fetch["F0111"].enhanced[2]

-----------------------------------------------------------------------------
(* Properties of the join of buildVendorsMaster.                           *)

\* the positions, in the sheet of T, of the rows that have a key and whose
\* key is the given one
MatchIdx(T, an8) ==
    LET data == loadTableData(sheets[T], dictFile[T])
    IN  {i \in 1..Len(data) : /\ ~SheetKeyMissing(data[i])
                              /\ String(AN8Of(data[i])) = String(an8)}

\* the k-th smallest element of a set of positions
KthOf(S, k) == CHOOSE i \in S : Cardinality({m \in S : m <= i}) = k

\* C26: in every master record and for each of F0115, F01151, F0116 and
\* F0111, the child sequence is the enrichment of exactly the rows of the
\* sheet whose key ('Address Number', else 'AN8') is the record's AN8, in
\* sheet order: a row without a key, or with another key, is under no such
\* record.
C26_SnapshotJoin ==
    snapPc = "resolved" =>
        \A j \in 1..Len(vendorsMaster) : \A T \in ManyTables :
            LET rec == vendorsMaster[j]
                data == loadTableData(sheets[T], dictFile[T])
                own == MatchIdx(T, rec.AN8)
            IN  /\ Len(rec[T]) = Cardinality(own)
                /\ \A k \in 1..Len(rec[T]) :
                      rec[T][k] = enrichRow(data[KthOf(own, k)], DictionaryOf(T), T)
                /\ \A i \in (1..Len(data)) \ own : \A k \in 1..Len(rec[T]) :
                      rec[T][k] # enrichRow(data[i], DictionaryOf(T), T)

\* a record of parent 4242 holding the first and the fourth row of F0116, by
\* the side of a record whose parent has no key and holds none
C26_Witness ==
    /\ snapPc = "resolved"
    /\ \E i, j \in 1..Len(vendorsMaster) :
          /\ MatchIdx("F0116", vendorsMaster[i].AN8) = {1, 4}
          /\ Len(vendorsMaster[i].F0116) = 2
          /\ vendorsMaster[i].F0116[1] # vendorsMaster[i].F0116[2]
          /\ vendorsMaster[j].AN8 = Undefined
          /\ vendorsMaster[j].F0116 = <<>>

-----------------------------------------------------------------------------
(* Properties of the output collections and files of buildVendorsJson.     *)

\* C27: at every point of the loop of buildVendorsJson the raw and the
\* enhanced collection have the same length and, at each index, the same
\* addressNumber; a step that appends to one appends to the other.
C27_CollectionsAligned ==
    /\ [](/\ Len(vendorsRaw) = Len(vendorsEnhanced)
          /\ \A j \in 1..Len(vendorsRaw) :
                vendorsRaw[j].addressNumber = vendorsEnhanced[j].addressNumber)
    /\ [][/\ Len(vendorsRaw') # Len(vendorsRaw) <=>
                Len(vendorsEnhanced') # Len(vendorsEnhanced)
          /\ Len(vendorsRaw') # Len(vendorsRaw) =>
                /\ vendorsRaw' = Append(vendorsRaw, vendorsRaw'[Len(vendorsRaw')])
                /\ vendorsEnhanced' =
                      Append(vendorsEnhanced, vendorsEnhanced'[Len(vendorsEnhanced')])]_vars

\* two parents with different keys were appended to both collections
C27_Witness ==
    /\ Len(vendorsRaw) = 2
    /\ Len(vendorsEnhanced) = 2
    /\ vendorsRaw[1].addressNumber # vendorsRaw[2].addressNumber
    /\ vendorsEnhanced[2].addressNumber = vendorsRaw[2].addressNumber

\* the names of the files written, in order
FileNames == [j \in 1..Len(files) |-> files[j].name]

\* C28: buildVendorsJson writes only after the loop has passed the last
\* parent, vendors.json then vendors-enhanced.json, each with the whole
\* collection; a run that rejected has written no file, then and ever after;
\* vendors-enhanced.json is never there without vendors.json before it.
C28_WritesAfterLastParent ==
    /\ [](/\ FileNames \in {<<>>, <<"vendors.json">>,
                            <<"vendors.json", "vendors-enhanced.json">>}
          /\ files # <<>> =>
                /\ idx > Len(vendorRowset)
                /\ bvPc \in {"write_enhanced", "resolved"}
                /\ files[1].content = vendorsRaw
                /\ AddressNumbers(vendorsRaw) = ValidKeys(vendorRowset)
          /\ Len(files) = 2 => files[2].content = vendorsEnhanced
          /\ bvPc = "rejected" => files = <<>>)
    /\ [][bvPc = "rejected" => (bvPc' = "rejected" /\ files' = <<>>)]_vars

\* the run rejected at its second parent, after the first was collected, and
\* no file was written
C28_Witness ==
    /\ bvPc = "rejected"
    /\ idx = 2
    /\ Len(vendorsRaw) = 1
    /\ \E c \in Children : fetch[c].pc = "rejected"
    /\ files = <<>>

-----------------------------------------------------------------------------
(* Properties of the profile-based entry point.                            *)

\* the row has a key containing 'AN8' whose value is truthy
HasTruthyAN8(vendor) == \E j \in AN8Keys(vendor) : Truthy(vendor[j].val)

\* the fetchers of a slot that rejected
Rejected(slot) == {T \in ProfileTables : slot.t[T].pc = "rejected"}

\* C29: the profiles of all vendors are fetched concurrently and a vendor's
\* failure does not reject the batch: the result list has one entry per
\* primary row, in row order; the entry is null, with no fetch issued, when
\* the row has no key containing 'AN8' with a truthy value, and otherwise it
\* is the row merged with its profile, or the row with an error field when
\* its profile fetch failed.
C29_OneEntryPerVendor ==
    /\ prof.pc = "rejected" => prof.slots = <<>>
    /\ prof.pc = "done" =>
          /\ Len(prof.fullProfiles) = Len(prof.vendors)
          /\ \A i \in 1..Len(prof.vendors) :
                LET vendor == prof.vendors[i]
                    slot == prof.slots[i]
                    entry == prof.fullProfiles[i]
                IN  IF HasTruthyAN8(vendor)
                    THEN /\ entry.kind \in {"merged", "error"}
                         /\ entry.vendor = vendor
                         /\ entry.kind = "error" <=> Rejected(slot) # {}
                         /\ entry.kind = "merged" =>
                               entry.profile = FullProfile(slot.an, slot.t)
                    ELSE /\ entry.kind = "null"
                         /\ \A T \in ProfileTables : slot.t[T] = IdleFetcher

\* every callback of vendors.map has run up to its first await: a row with an
\* address number has its four fetchers called, whatever the other rows' state
AllStarted ==
    \A i \in 1..Len(prof.slots) :
        \/ prof.slots[i].pc = "settled"
        \/ \A T \in ProfileTables : prof.slots[i].t[T].pc # "idle"

\* C29 as amended: the same, with null exactly when the first key containing
\* 'AN8' is missing or holds a falsy value; while the profiles are awaited
\* every row with an address number has its fetchers in flight together.
C29_OneEntryPerVendorByFirstKey ==
    /\ prof.pc = "rejected" => prof.slots = <<>>
    /\ prof.pc \in {"profiles", "done"} =>
          /\ Len(prof.slots) = Len(prof.vendors)
          /\ AllStarted
    /\ prof.pc = "done" =>
          /\ Len(prof.fullProfiles) = Len(prof.vendors)
          /\ \A i \in 1..Len(prof.vendors) :
                LET vendor == prof.vendors[i]
                    slot == prof.slots[i]
                    entry == prof.fullProfiles[i]
                IN  IF Truthy(FindAddressNumber(vendor))
                    THEN /\ entry.kind \in {"merged", "error"}
                         /\ entry.vendor = vendor
                         /\ entry.kind = "error" <=> Rejected(slot) # {}
                         /\ entry.kind = "merged" =>
                               entry.profile = FullProfile(FindAddressNumber(vendor), slot.t)
                    ELSE /\ entry.kind = "null"
                         /\ \A T \in ProfileTables : slot.t[T] = IdleFetcher

\* a batch of two vendors: the profile of the first failed, the second was
\* merged, and the list holds both in row order
C29_Witness ==
    /\ prof.pc = "done"
    /\ Len(prof.fullProfiles) = 2
    /\ prof.fullProfiles[1].kind = "error"
    /\ prof.fullProfiles[1].vendor = prof.vendors[1]
    /\ prof.fullProfiles[2].kind = "merged"
    /\ prof.fullProfiles[2].vendor = prof.vendors[2]

\* C30: getVendorFullProfile is all-or-nothing: each of its four fetchers
\* issues at most one query, the table-qualified one, and rejects exactly
\* when its authentication or its query failed; the call returns a profile
\* only when all four queries were answered, and then each sequence of the
\* profile is the rowset of the answer; when a fetcher rejects the call
\* rejects with that fetcher's error.
C30_AllOrNothing ==
    \A i \in 1..Len(prof.slots) :
        LET slot == prof.slots[i]
        IN  /\ \A T \in ProfileTables :
                  LET f == slot.t[T]
                  IN  /\ f.queries = IF f.auth = "ok" THEN <<T \o ".AN8">> ELSE <<>>
                      /\ f.pc = "rejected" <=> (f.auth = "failed" \/ f.answer = "rejected")
                      /\ f.pc = "resolved" <=> f.answer = "resolved"
            /\ slot.result.kind = "merged" <=>
                  \A T \in ProfileTables : slot.t[T].answer = "resolved"
            /\ slot.result.kind = "merged" =>
                  slot.result.profile =
                      [addressNumber |-> slot.an,
                       mailing |-> RowsetOf("F0116", QueryRows("F0116", String(slot.an), ProfileLimit)),
                       phones |-> RowsetOf("F0115", QueryRows("F0115", String(slot.an), ProfileLimit)),
                       master |-> RowsetOf("F0401", QueryRows("F0401", String(slot.an), ProfileLimit)),
                       performance |-> RowsetOf("F43230", QueryRows("F43230", String(slot.an), ProfileLimit))]
            /\ Rejected(slot) # {} =>
                  /\ slot.pc = "settled"
                  /\ slot.result.kind = "error"
                  /\ \E T \in Rejected(slot) :
                        slot.result.error = <<T, slot.t[T].auth, slot.t[T].answer>>

\* a call in which three tables were answered and the query of the fourth
\* was rejected: the call rejected, by the side of a call that returned a
\* profile with two mailing rows
C30_Witness ==
    \E i, j \in 1..Len(prof.slots) :
        /\ prof.slots[i].result.kind = "error"
        /\ \E T \in ProfileTables :
              /\ prof.slots[i].t[T].answer = "rejected"
              /\ \A U \in ProfileTables \ {T} : prof.slots[i].t[U].answer = "resolved"
        /\ prof.slots[j].result.kind = "merged"
        /\ Len(prof.slots[j].result.profile.mailing) = 2
        /\ prof.slots[j].result.profile.performance = <<>>

====
